---- MODULE Spec2Model ----
(***************************************************************************)
(* A model of the MarketDataCollector bulk metrics collector               *)
(* (src/src/subscription/equity_metrics.py), its session validator         *)
(* (src/src/session/session_manager.py) and its persistence sink           *)
(* (src/src/data/market_data_store.py).                                    *)
(*                                                                         *)
(* and of its streaming subscription                                       *)
(* (src/src/subscription/market_data_subscription.py), of the poll-based   *)
(* manager (src/src/subscription/market_data_manager.py) and of the way    *)
(* src/main.py runs the daily task beside the subscription.                *)
(*                                                                         *)
(* The specifications share the variables:                                 *)
(*   SpecChunk    applies EquityMetrics._chunk_symbols to bounded inputs   *)
(*   SpecCombine  applies EquityMetrics._combine_data to bounded inputs    *)
(*   Spec         runs one EquityMetrics.gather_metrics call step by step  *)
(*   SpecSub      connect and stop on one MarketDataSubscription, one call *)
(*                after the other (SpecSubFair: with fair scheduling)      *)
(*   SpecRace     connect and stop, a second caller's call overlapping     *)
(*   SpecOverlap  a connected subscription and two callers, fair scheduling *)
(*   SpecAll      connect, stop and download_historical_data               *)
(*   SpecListen   the consumer loop and on_candle, sample by sample        *)
(*   SpecHist     the consumption loop of download_historical_data and     *)
(*                what follows it                                          *)
(*   SpecDaily    main.py's daily task beside the consumer loop            *)
(*   SpecMgr      start and stop on one MarketDataManager and its worker   *)
(*                threads (SpecMgrFair: the join of stop() returns)        *)
(***************************************************************************)
EXTENDS Integers, Sequences, FiniteSets, TLC

VARIABLES
    pc,                     \* position of the running operation
    args,                   \* SpecChunk / SpecCombine: the inputs of the call
    ret,                    \* SpecChunk / SpecCombine: the value returned
    symbols_list,           \* gather_metrics argument
    symbols_per_batch,      \* gather_metrics argument
    delay_between_calls,    \* gather_metrics argument
    delay_between_batches,  \* gather_metrics argument
    verbose,                \* gather_metrics argument
    session,                \* the session object: "valid" or "expired"
    batch_num,              \* loop variable of gather_metrics (0-based)
    i,                      \* loop variable of the chunk loops (1-based)
    all_metrics,            \* accumulator of _fetch_metrics_in_batches
    all_market_data,        \* accumulator of _fetch_market_data_in_batches
    batch_combined_data,    \* _process_symbol_batch: the combined batch
    symbols_processed,      \* _process_symbol_batch: counter
    all_combined_data,      \* gather_metrics: the accumulated mapping
    equity_data,            \* the rows inserted into table equity_data
    error,                  \* the exception that left gather_metrics, if any
    log,                    \* history: every external effect, in order
    faults,                 \* history: number of faults injected so far
    symbols,                \* MarketDataSubscription.symbols
    creds,                  \* both TT_OAUTH_* environment variables are set
    sub_session,            \* MarketDataSubscription.session
    streamer,               \* MarketDataSubscription.streamer (0 is None)
    is_running,             \* MarketDataSubscription.is_running
    listen_task,            \* MarketDataSubscription.listen_task (0 is None)
    handles,                \* every DXLinkStreamer object created so far
    tasks,                  \* every _listen_for_data task created so far
    call,                   \* the coroutine each caller is running
    cur,                    \* the caller whose coroutine holds the event loop
    budget,                 \* the calls each caller may still make
    hist,                   \* history of the subscription's calls and samples
    collected,              \* download_historical_data: data, per symbol
    completed_symbols,      \* download_historical_data: symbols that are done
    feed,                   \* history: the samples the backfill loop received
    exit,                   \* how the backfill loop ended, "none" while it runs
    running,                \* MarketDataManager.running
    thread,                 \* MarketDataManager.thread (0 is None)
    stop_event,             \* MarketDataManager._stop_event is set
    workers,                \* every worker thread created so far
    mcall,                  \* the position of the thread that calls the manager
    mhist                   \* history of the manager's calls and polls

mvars == <<running, thread, stop_event, workers, mcall, mhist>>
pvars == <<args, ret, mvars>>
hvars == <<collected, completed_symbols, feed, exit>>
svars == <<symbols, creds, sub_session, streamer, is_running, listen_task,
           handles, tasks, call, cur, budget, hist, hvars>>
gvars == <<symbols_list, symbols_per_batch, delay_between_calls,
           delay_between_batches, verbose, session, batch_num, i,
           all_metrics, all_market_data, batch_combined_data,
           symbols_processed, all_combined_data, equity_data, error, log,
           faults>>
vars == <<pc, pvars, gvars, svars>>

-----------------------------------------------------------------------------
(* Bounds of the model *)

\* longest list handed to _chunk_symbols in SpecChunk
MaxChunkLen == 4
\* largest chunk size handed to _chunk_symbols in SpecChunk
MaxChunkSize == 3
\* longest record list handed to _combine_data in SpecCombine
MaxRecs == 2

\* symbols of the pure-function specifications
PureSymbols == {"A", "B", "C"}
\* payloads that tell two records of one symbol apart
Payloads == {"x", "y"}

-----------------------------------------------------------------------------
(* Helpers *)

Min(a, b) == IF a < b THEN a ELSE b

\* math.ceil(a / b) for a >= 0, b >= 1
Ceil(a, b) == IF a % b = 0 THEN a \div b ELSE (a \div b) + 1

SeqsUpTo(S, n) == UNION {[1..k -> S] : k \in 0..n}

RECURSIVE Flatten(_)
Flatten(ss) == IF ss = <<>> THEN <<>> ELSE Head(ss) \o Flatten(Tail(ss))

\* Python's lst[a:b] for 0 <= a <= b (the end is clamped to the length)
Slice(lst, a, b) == SubSeq(lst, a + 1, Min(b, Len(lst)))

\* Python's None is the empty tuple, a present value v is <<v>>
None == <<>>
Some(v) == <<v>>

-----------------------------------------------------------------------------
(* EquityMetrics._chunk_symbols: for i in range(0, len, size): yield l[i:i+size] *)

RECURSIVE ChunkFrom(_, _, _)
ChunkFrom(lst, chunk_size, start) ==
    IF start >= Len(lst) THEN <<>>
    ELSE <<Slice(lst, start, start + chunk_size)>>
         \o ChunkFrom(lst, chunk_size, start + chunk_size)

\* a plausible slip: the slice end is off by one
RECURSIVE ChunkFrom_short(_, _, _)
ChunkFrom_short(lst, chunk_size, start) ==
    IF start >= Len(lst) THEN <<>>
    ELSE <<Slice(lst, start, start + chunk_size - 1)>>
         \o ChunkFrom_short(lst, chunk_size, start + chunk_size)

chunk_symbols_short(lst, chunk_size) == ChunkFrom_short(lst, chunk_size, 0)

chunk_symbols(lst, chunk_size) == ChunkFrom(lst, chunk_size, 0)

-----------------------------------------------------------------------------
(* EquityMetrics._combine_data.  A dict is a sequence of rows in insertion  *)
(* order, one row per key; a row is a function from its keys.               *)

Keys(d) == {d[k].symbol : k \in 1..Len(d)}

IndexOf(d, s) == CHOOSE k \in 1..Len(d) : d[k].symbol = s

\* d[s] = row: an existing key keeps its place, a new key goes last
Put(d, s, row) ==
    IF s \in Keys(d) THEN [d EXCEPT ![IndexOf(d, s)] = row] ELSE Append(d, row)

\* metric.model_dump() / metric.dict(): the object as a dict
Dump(obj) == [symbol |-> obj.symbol, val |-> obj.val]

RECURSIVE SeedMetrics(_, _, _)
SeedMetrics(d, metrics_data, k) ==
    IF k > Len(metrics_data) THEN d
    ELSE LET symbol == metrics_data[k].symbol
         IN SeedMetrics(Put(d, symbol,
                            [symbol |-> symbol,
                             metrics |-> Some(Dump(metrics_data[k])),
                             market_data |-> None]),
                        metrics_data, k + 1)

RECURSIVE AddMarketData(_, _, _)
AddMarketData(d, market_data, k) ==
    IF k > Len(market_data) THEN d
    ELSE LET symbol == market_data[k].symbol
             dump == Some(Dump(market_data[k]))
         IN AddMarketData(
                IF symbol \in Keys(d)
                THEN [d EXCEPT ![IndexOf(d, symbol)].market_data = dump]
                ELSE Append(d, [symbol |-> symbol, metrics |-> None,
                                market_data |-> dump]),
                market_data, k + 1)

\* a plausible slip: an inner join, price-only symbols are dropped
RECURSIVE AddMarketData_inner(_, _, _)
AddMarketData_inner(d, market_data, k) ==
    IF k > Len(market_data) THEN d
    ELSE LET symbol == market_data[k].symbol
             dump == Some(Dump(market_data[k]))
         IN AddMarketData_inner(
                IF symbol \in Keys(d)
                THEN [d EXCEPT ![IndexOf(d, symbol)].market_data = dump]
                ELSE d,
                market_data, k + 1)

combine_data_inner(metrics_data, market_data) ==
    AddMarketData_inner(SeedMetrics(<<>>, metrics_data, 1), market_data, 1)

combine_data(metrics_data, market_data) ==
    AddMarketData(SeedMetrics(<<>>, metrics_data, 1), market_data, 1)

-----------------------------------------------------------------------------
(* The state of an EquityMetrics object on which gather_metrics is not      *)
(* running: the pure-function specifications keep it fixed.                 *)

\* the foreground coroutines that call into one MarketDataSubscription
Callers == {1, 2}

\* a caller that is not inside a call
IdleCall ==
    [op |-> "idle", pc |-> "idle", nested |-> FALSE, h |-> 0, t |-> 0,
     timed_out |-> FALSE, failed |-> FALSE, again |-> FALSE]

\* nothing has happened to the subscription yet
NoHistory ==
    [calls |-> 0, samples |-> 0, faults |-> 0, overlapped |-> FALSE,
     downloaded |-> FALSE, interrupted |-> FALSE, reentered |-> FALSE,
     last |-> <<>>, events |-> <<>>, market_data |-> <<>>]

(* MarketDataSubscription.__init__, lines 24-30 *)
SubNew ==
    /\ sub_session = "none"
    /\ streamer = 0
    /\ is_running = FALSE
    /\ listen_task = 0
    /\ handles = <<>>
    /\ tasks = <<>>
    /\ call = [c \in Callers |-> IdleCall]
    /\ cur = 0
    /\ hist = NoHistory

\* no backfill loop is running
HistIdle ==
    /\ collected = <<>>
    /\ completed_symbols = {}
    /\ feed = <<>>
    /\ exit = "none"

\* a subscription nobody calls
ObjectIdle ==
    /\ symbols = <<>>
    /\ creds = FALSE
    /\ budget = [c \in Callers |-> 0]
    /\ SubNew

\* a subscription nobody uses: the other specifications keep it fixed
SubIdle == ObjectIdle /\ HistIdle

\* the calls made on a MarketDataManager and the last of them, the polls
\* begun, and whether a join of stop() has timed out
NoManagerHistory ==
    [calls |-> 0, last |-> "none", polls |-> 0, timed_out |-> FALSE]

(* MarketDataManager.__init__, lines 18-22; nobody calls it *)
MgrNew ==
    /\ running = FALSE
    /\ thread = 0
    /\ stop_event = FALSE
    /\ workers = <<>>
    /\ mcall = "idle"

\* a manager nobody uses: the other specifications keep it fixed
MgrIdle == MgrNew /\ mhist = NoManagerHistory

GatherIdle ==
    /\ symbols_list = <<>>
    /\ symbols_per_batch = 1
    /\ delay_between_calls = 0
    /\ delay_between_batches = 0
    /\ verbose = FALSE
    /\ session = "valid"
    /\ batch_num = 0
    /\ i = 0
    /\ all_metrics = <<>>
    /\ all_market_data = <<>>
    /\ batch_combined_data = <<>>
    /\ symbols_processed = 0
    /\ all_combined_data = <<>>
    /\ equity_data = <<>>
    /\ error = "none"
    /\ log = <<>>
    /\ faults = 0

-----------------------------------------------------------------------------
(* SpecChunk: _chunk_symbols on every list up to MaxChunkLen and every      *)
(* chunk size 1..MaxChunkSize.                                              *)

InitChunk ==
    /\ pc = "chunk_call"
    /\ args \in {[symbols_list |-> l, chunk_size |-> c] :
                   l \in SeqsUpTo(PureSymbols, MaxChunkLen),
                   c \in 1..MaxChunkSize}
    /\ ret = <<>>
    /\ MgrIdle
    /\ GatherIdle
    /\ SubIdle

ChunkCall ==
    /\ pc = "chunk_call"
    /\ ret' = chunk_symbols(args.symbols_list, args.chunk_size)
    /\ pc' = "chunk_done"
    /\ UNCHANGED <<args, gvars, svars, mvars>>

NextChunk == ChunkCall

SpecChunk == InitChunk /\ [][NextChunk]_vars

-----------------------------------------------------------------------------
(* SpecCombine: _combine_data on every pair of record lists up to MaxRecs.  *)

Objects == {[symbol |-> s, val |-> v] : s \in {"A", "B"}, v \in Payloads}

InitCombine ==
    /\ pc = "combine_call"
    /\ args \in {[metrics_data |-> m, market_data |-> p] :
                   m \in SeqsUpTo(Objects, MaxRecs),
                   p \in SeqsUpTo(Objects, MaxRecs)}
    /\ ret = <<>>
    /\ MgrIdle
    /\ GatherIdle
    /\ SubIdle

\* a plausible slip: the price list is drained while it is walked
CombineCall_consuming ==
    /\ pc = "combine_call"
    /\ ret' = combine_data(args.metrics_data, args.market_data)
    /\ args' = [args EXCEPT !.market_data = <<>>]
    /\ pc' = "combine_done"
    /\ UNCHANGED <<gvars, svars, mvars>>

\* the two for loops only read their lists (iteration, .symbol, model_dump)
CombineCall ==
    /\ pc = "combine_call"
    /\ ret' = combine_data(args.metrics_data, args.market_data)
    /\ args' = args
    /\ pc' = "combine_done"
    /\ UNCHANGED <<gvars, svars, mvars>>

\* a second application to the same two list objects
CombineAgain ==
    /\ pc = "combine_done"
    /\ ret' = combine_data(args.metrics_data, args.market_data)
    /\ args' = args
    /\ pc' = "combine_again"
    /\ UNCHANGED <<gvars, svars, mvars>>

NextCombine == CombineCall \/ CombineAgain

SpecCombine == InitCombine /\ [][NextCombine]_vars

-----------------------------------------------------------------------------
(* Spec: one call of EquityMetrics.gather_metrics.                          *)

\* the chunk length of both chunked fetches
ChunkSize == 10

\* longest short symbol list handed to gather_metrics
MaxLen == 3
\* most outer batches of one call
MaxBatches == 3
\* most faults (raising call, partial answer, failed mapping, failed insert)
\* the environment injects into one call
MaxFaults == 2

\* the lengths of the long symbol lists tried: a chunk and two more symbols,
\* so that a batch of ChunkSize + 1 symbols has two chunks and leaves a batch
LongLens == {ChunkSize + 2}
\* the symbols_per_batch values tried
BatchSizes == {1, 2, ChunkSize, ChunkSize + 1}
\* the delays tried, in units of a sleep
Delays == {0, 1}
\* the symbols whose row may fail to map or to insert
FaultySymbols == {1, 2}

\* the list of length n and period m is 1, 2, .., m, 1, 2, ..: it repeats no
\* symbol when m >= n
Cyc(n, m) == [k \in 1..n |-> ((k - 1) % m) + 1]

\* short lists with and without a repeated symbol, long lists without and
\* with the first symbols repeated in the second chunk
SymbolLists ==
    {Cyc(n, m) : n \in 0..MaxLen, m \in {1, MaxLen}}
    \cup {Cyc(n, m) : n \in LongLens, m \in {ChunkSize, ChunkSize + 2}}

\* the answers of the API to a call that does not raise: a record for every
\* requested symbol, or for the odd-numbered ones only
Replies == {"all", "odd"}

Event(op, chunk, syms, out, answer) ==
    [op |-> op, batch |-> batch_num + 1, chunk |-> chunk, syms |-> syms,
     out |-> out, answer |-> answer]

InitGather ==
    /\ pc = "gather_call"
    /\ args = <<>>
    /\ ret = <<>>
    /\ MgrIdle
    /\ symbols_list \in SymbolLists
    /\ symbols_per_batch \in BatchSizes
    /\ Ceil(Len(symbols_list), symbols_per_batch) <= MaxBatches
    /\ delay_between_calls \in Delays
    /\ delay_between_batches \in Delays
    /\ verbose \in BOOLEAN
    /\ session \in {"valid", "expired"}
    /\ batch_num = 0
    /\ i = 0
    /\ all_metrics = <<>>
    /\ all_market_data = <<>>
    /\ batch_combined_data = <<>>
    /\ symbols_processed = 0
    /\ all_combined_data = <<>>
    /\ equity_data = <<>>
    /\ error = "none"
    /\ log = <<>>
    /\ faults = 0
    /\ SubIdle

(* gather_metrics, lines 238-239 and 252-254 *)
total_symbols == Len(symbols_list)
total_batches == Ceil(total_symbols, symbols_per_batch)

\* a plausible slip: the slice end is inclusive, batches overlap by a symbol
BatchOf_overlap(b) ==
    LET batch_start_idx == b * symbols_per_batch
        batch_end_idx == Min(batch_start_idx + symbols_per_batch + 1,
                             total_symbols)
    IN Slice(symbols_list, batch_start_idx, batch_end_idx)

BatchOf(b) ==
    LET batch_start_idx == b * symbols_per_batch
        batch_end_idx == Min(batch_start_idx + symbols_per_batch, total_symbols)
    IN Slice(symbols_list, batch_start_idx, batch_end_idx)

symbols_batch == BatchOf(batch_num)

\* a plausible slip: the chunks are walked last to first
ChunksOf_reversed(batch) ==
    LET cs == chunk_symbols(batch, ChunkSize)
    IN [k \in 1..Len(cs) |-> cs[Len(cs) + 1 - k]]

\* chunks = list(self._chunk_symbols(symbols_list, 10))
ChunksOf(batch) == chunk_symbols(batch, ChunkSize)

chunks == ChunksOf(symbols_batch)

(* validate_session: refresh when expired; a failing refresh is re-raised. *)
(* A refresh that succeeds leaves a valid session, as if it had not expired. *)
ValidateFresh ==
    /\ pc = "gather_call"
    /\ session = "valid"
    /\ log' = Append(log, Event("validate_session", 0, <<>>, "ok", <<>>))
    /\ pc' = "batch_loop"
    /\ UNCHANGED <<pvars, svars, symbols_list, symbols_per_batch, delay_between_calls,
                   delay_between_batches, verbose, session, batch_num, i,
                   all_metrics, all_market_data, batch_combined_data,
                   symbols_processed, all_combined_data, equity_data, error,
                   faults>>

ValidateRefreshOk ==
    /\ pc = "gather_call"
    /\ session = "expired"
    /\ session' = "valid"
    /\ log' = Append(log, Event("validate_session", 0, <<>>, "ok", <<>>))
    /\ pc' = "batch_loop"
    /\ UNCHANGED <<pvars, svars, symbols_list, symbols_per_batch, delay_between_calls,
                   delay_between_batches, verbose, batch_num, i,
                   all_metrics, all_market_data, batch_combined_data,
                   symbols_processed, all_combined_data, equity_data, error,
                   faults>>

\* a plausible slip: the refresh error is printed and swallowed
ValidateRefreshRaises_swallowed ==
    /\ pc = "gather_call"
    /\ session = "expired"
    /\ log' = Append(log, Event("validate_session", 0, <<>>, "raise", <<>>))
    /\ pc' = "batch_loop"
    /\ UNCHANGED <<pvars, svars, symbols_list, symbols_per_batch, delay_between_calls,
                   delay_between_batches, verbose, session, batch_num, i,
                   all_metrics, all_market_data, batch_combined_data,
                   symbols_processed, all_combined_data, equity_data, error,
                   faults>>

ValidateRefreshRaises ==
    /\ pc = "gather_call"
    /\ session = "expired"
    /\ log' = Append(log, Event("validate_session", 0, <<>>, "raise", <<>>))
    /\ error' = "SessionError"
    /\ pc' = "raised"
    /\ UNCHANGED <<pvars, svars, symbols_list, symbols_per_batch, delay_between_calls,
                   delay_between_batches, verbose, session, batch_num, i,
                   all_metrics, all_market_data, batch_combined_data,
                   symbols_processed, all_combined_data, equity_data, faults>>

(* for batch_num in range(total_batches): _process_symbol_batch(...) begins *)
BeginBatch ==
    /\ pc = "batch_loop"
    /\ batch_num < total_batches
    /\ all_metrics' = <<>>
    /\ i' = 1
    /\ pc' = "fetch_metrics"
    /\ UNCHANGED <<pvars, svars, symbols_list, symbols_per_batch, delay_between_calls,
                   delay_between_batches, verbose, session, batch_num,
                   all_market_data, batch_combined_data, symbols_processed,
                   all_combined_data, equity_data, error, log, faults>>

(* the API's answer to a call that does not raise *)
Answer(chunk, reply) ==
    LET kept == IF reply = "all" THEN chunk
                ELSE SelectSeq(chunk, LAMBDA s : s % 2 = 1)
    IN [k \in 1..Len(kept) |-> [symbol |-> kept[k], val |-> batch_num + 1]]

\* if i < len(chunks) and delay_between_calls > 0: time.sleep(...)
SleepBetweenCalls(k, n) ==
    IF k < n /\ delay_between_calls > 0
    THEN <<Event("sleep", k, <<>>, "calls", <<>>)>>
    ELSE <<>>

\* a plausible slip: a failed chunk ends the loop (break instead of continue)
AfterChunk_break(k, n, raised) == IF k < n /\ ~raised THEN "again" ELSE "over"

\* the for loop goes on to the next chunk, also after a failed one
AfterChunk(k, n, raised) == IF k < n THEN "again" ELSE "over"

FetchMetricsOk ==
    /\ pc = "fetch_metrics"
    /\ \E reply \in Replies :
         LET metrics_data == Answer(ChunksOf(symbols_batch)[i], reply)
         IN /\ reply # "all" => faults < MaxFaults
            /\ faults' = IF reply = "all" THEN faults ELSE faults + 1
            /\ all_metrics' = all_metrics \o metrics_data
            /\ log' = Append(log, Event("get_market_metrics", i,
                                        ChunksOf(symbols_batch)[i], "ok",
                                        metrics_data))
                      \o SleepBetweenCalls(i, Len(chunks))
    /\ IF AfterChunk(i, Len(chunks), FALSE) = "again"
       THEN /\ i' = i + 1
            /\ pc' = "fetch_metrics"
            /\ UNCHANGED all_market_data
       ELSE /\ i' = 1
            /\ pc' = "fetch_market_data"
            /\ all_market_data' = <<>>
    /\ UNCHANGED <<pvars, svars, symbols_list, symbols_per_batch, delay_between_calls,
                   delay_between_batches, verbose, session, batch_num,
                   batch_combined_data, symbols_processed, all_combined_data,
                   equity_data, error>>

FetchMetricsRaises ==
    /\ pc = "fetch_metrics"
    /\ faults < MaxFaults
    /\ faults' = faults + 1
    /\ log' = Append(log, Event("get_market_metrics", i,
                                ChunksOf(symbols_batch)[i], "raise", <<>>))
    /\ IF AfterChunk(i, Len(chunks), TRUE) = "again"
       THEN /\ i' = i + 1
            /\ pc' = "fetch_metrics"
            /\ UNCHANGED all_market_data
       ELSE /\ i' = 1
            /\ pc' = "fetch_market_data"
            /\ all_market_data' = <<>>
    /\ UNCHANGED <<pvars, svars, symbols_list, symbols_per_batch, delay_between_calls,
                   delay_between_batches, verbose, session, batch_num,
                   all_metrics, batch_combined_data, symbols_processed,
                   all_combined_data, equity_data, error>>

FetchMarketDataOk ==
    /\ pc = "fetch_market_data"
    /\ \E reply \in Replies :
         LET market_data == Answer(ChunksOf(symbols_batch)[i], reply)
         IN /\ reply # "all" => faults < MaxFaults
            /\ faults' = IF reply = "all" THEN faults ELSE faults + 1
            /\ all_market_data' = all_market_data \o market_data
            /\ log' = Append(log, Event("get_market_data_by_type", i,
                                        ChunksOf(symbols_batch)[i], "ok",
                                        market_data))
                      \o SleepBetweenCalls(i, Len(chunks))
    /\ IF AfterChunk(i, Len(chunks), FALSE) = "again"
       THEN /\ i' = i + 1
            /\ pc' = "fetch_market_data"
       ELSE /\ i' = 1
            /\ pc' = "combine"
    /\ UNCHANGED <<pvars, svars, symbols_list, symbols_per_batch, delay_between_calls,
                   delay_between_batches, verbose, session, batch_num,
                   all_metrics, batch_combined_data, symbols_processed,
                   all_combined_data, equity_data, error>>

FetchMarketDataRaises ==
    /\ pc = "fetch_market_data"
    /\ faults < MaxFaults
    /\ faults' = faults + 1
    /\ log' = Append(log, Event("get_market_data_by_type", i,
                                ChunksOf(symbols_batch)[i], "raise", <<>>))
    /\ IF AfterChunk(i, Len(chunks), TRUE) = "again"
       THEN /\ i' = i + 1
            /\ pc' = "fetch_market_data"
       ELSE /\ i' = 1
            /\ pc' = "combine"
    /\ UNCHANGED <<pvars, svars, symbols_list, symbols_per_batch, delay_between_calls,
                   delay_between_batches, verbose, session, batch_num,
                   all_metrics, all_market_data, batch_combined_data,
                   symbols_processed, all_combined_data, equity_data, error>>

(* batch_combined_data = self._combine_data(metrics_data, market_data) *)
Combine ==
    /\ pc = "combine"
    /\ batch_combined_data' = combine_data(all_metrics, all_market_data)
    /\ log' = Append(log, Event("combine", 0, <<>>, "ok", <<>>))
    /\ symbols_processed' = 0
    /\ i' = 1
    /\ pc' = IF combine_data(all_metrics, all_market_data) = <<>>
             THEN "batch_end" ELSE "store"
    /\ UNCHANGED <<pvars, svars, symbols_list, symbols_per_batch, delay_between_calls,
                   delay_between_batches, verbose, session, batch_num,
                   all_metrics, all_market_data, all_combined_data,
                   equity_data, error, faults>>

(* the record handed to the sink: representative attributes iv_rank (from   *)
(* the metrics) and bid (from the market data)                              *)
DictGet(d, key) == IF key \in DOMAIN d THEN d[key] ELSE None

FieldOf(side) == IF side # None THEN Some(side[1].val) ELSE None

MapRow(symbol, data) ==
    [symbol |-> Some(symbol),
     iv_rank |-> FieldOf(data.metrics),
     bid |-> FieldOf(data.market_data)]

\* metrics_dict = {'symbol': symbol}  # Minimal fallback
Fallback(symbol) == [symbol |-> Some(symbol)]

\* None if v is None else float(v).  The values come from the API's typed
\* records (numbers or None), so the conversion itself does not raise.
ToFloat(v) == IF v = None THEN None ELSE Some(<<"float", v[1]>>)

ParamsOf(metrics_data) ==
    [symbol |-> DictGet(metrics_data, "symbol"),
     bid |-> ToFloat(DictGet(metrics_data, "bid")),
     implied_volatility_index_rank |-> ToFloat(DictGet(metrics_data, "iv_rank"))]

\* MarketDataStore.store_metric_data: the insert; an error of execute_query
\* is caught and printed
store_metric_data(table, metrics_data, db_ok) ==
    IF db_ok THEN Append(table, ParamsOf(metrics_data)) ELSE table

\* a plausible slip: a symbol whose mapping failed is skipped, not stored
process_row_skip(data, map_ok, db_ok) ==
    IF map_ok
    THEN [equity_data |-> store_metric_data(equity_data,
                                            MapRow(data.symbol, data), db_ok),
          log |-> Append(log, Event("store_metric_data", i, <<data.symbol>>,
                                    IF db_ok THEN "ok" ELSE "db_error",
                                    <<"full">>))]
    ELSE [equity_data |-> equity_data, log |-> log]

\* one turn of the store loop: the try block builds metrics_dict, every
\* exception falls back to the symbol-only dict, then the store is called
\* outside the try.  map_ok says whether the try block ran through, db_ok
\* whether execute_query inserted the row: both are the environment's choice.
process_row(data, map_ok, db_ok) ==
    LET symbol == data.symbol
        metrics_dict == IF map_ok THEN MapRow(symbol, data)
                        ELSE Fallback(symbol)
    IN [equity_data |-> store_metric_data(equity_data, metrics_dict, db_ok),
        log |-> Append(log, Event("store_metric_data", i, <<symbol>>,
                                  IF db_ok THEN "ok" ELSE "db_error",
                                  <<IF map_ok THEN "full" ELSE "fallback">>))]

(* for symbol, data in batch_combined_data.items(): map, store, count *)
StoreSymbol ==
    /\ pc = "store"
    /\ \E map_ok \in BOOLEAN, db_ok \in BOOLEAN :
         LET data == batch_combined_data[i]
             cost == (IF map_ok THEN 0 ELSE 1) + (IF db_ok THEN 0 ELSE 1)
         IN /\ cost > 0 => data.symbol \in FaultySymbols
            /\ faults + cost <= MaxFaults
            /\ faults' = faults + cost
            /\ equity_data' = process_row(data, map_ok, db_ok).equity_data
            /\ log' = process_row(data, map_ok, db_ok).log
    /\ symbols_processed' = symbols_processed + 1
    /\ IF i < Len(batch_combined_data)
       THEN i' = i + 1 /\ pc' = "store"
       ELSE i' = 0 /\ pc' = "batch_end"
    /\ UNCHANGED <<pvars, svars, symbols_list, symbols_per_batch, delay_between_calls,
                   delay_between_batches, verbose, session, batch_num,
                   all_metrics, all_market_data, batch_combined_data,
                   all_combined_data, error>>

\* dict.update: an existing key keeps its place and takes the new row
RECURSIVE Update(_, _, _)
Update(d, other, k) ==
    IF k > Len(other) THEN d
    ELSE Update(Put(d, other[k].symbol, other[k]), other, k + 1)

\* a batch delay that does not spare the last batch
SleepBetweenBatches_always ==
    IF delay_between_batches > 0
    THEN <<[op |-> "sleep", batch |-> batch_num + 1, chunk |-> 0,
            syms |-> <<>>, out |-> "batches", answer |-> <<>>]>>
    ELSE <<>>

\* if batch_num < total_batches - 1 and delay_between_batches > 0: sleep
SleepBetweenBatches ==
    IF batch_num < total_batches - 1 /\ delay_between_batches > 0
    THEN <<Event("sleep", 0, <<>>, "batches", <<>>)>>
    ELSE <<>>

(* all_combined_data.update(batch_combined_data), then the batch delay *)
EndBatch ==
    /\ pc = "batch_end"
    /\ all_combined_data' = Update(all_combined_data, batch_combined_data, 1)
    /\ log' = log \o SleepBetweenBatches
    /\ batch_num' = batch_num + 1
    /\ pc' = "batch_loop"
    /\ UNCHANGED <<pvars, svars, symbols_list, symbols_per_batch, delay_between_calls,
                   delay_between_batches, verbose, session, i, all_metrics,
                   all_market_data, batch_combined_data, symbols_processed,
                   equity_data, error, faults>>

(* the summary: total_duration / len(all_combined_data) divides by zero     *)
(* when verbose is set and nothing was collected                            *)
SummaryRaises ==
    /\ pc = "batch_loop"
    /\ batch_num >= total_batches
    /\ verbose /\ Len(all_combined_data) = 0
    /\ error' = "ZeroDivisionError"
    /\ pc' = "raised"
    /\ UNCHANGED <<pvars, svars, symbols_list, symbols_per_batch, delay_between_calls,
                   delay_between_batches, verbose, session, batch_num, i,
                   all_metrics, all_market_data, batch_combined_data,
                   symbols_processed, all_combined_data, equity_data, log,
                   faults>>

Return ==
    /\ pc = "batch_loop"
    /\ batch_num >= total_batches
    /\ ~(verbose /\ Len(all_combined_data) = 0)
    /\ pc' = "returned"
    /\ UNCHANGED <<pvars, svars, gvars>>

Next ==
    \/ ValidateFresh
    \/ ValidateRefreshOk
    \/ ValidateRefreshRaises
    \/ BeginBatch
    \/ FetchMetricsOk
    \/ FetchMetricsRaises
    \/ FetchMarketDataOk
    \/ FetchMarketDataRaises
    \/ Combine
    \/ StoreSymbol
    \/ EndBatch
    \/ SummaryRaises
    \/ Return

Spec == InitGather /\ [][Next]_vars

-----------------------------------------------------------------------------
(* C1: for every list of length N and every chunk size C >= 1,              *)
(* _chunk_symbols yields exactly ceil(N/C) chunks, each of length 1..C,     *)
(* and the chunks concatenated in order are the original list.              *)
C1_ChunksPartitionTheList ==
    pc = "chunk_done" =>
        LET N == Len(args.symbols_list)
            C == args.chunk_size
        IN /\ Len(ret) = (N + C - 1) \div C
           /\ \A k \in 1..Len(ret) : Len(ret[k]) >= 1 /\ Len(ret[k]) <= C
           /\ Flatten(ret) = args.symbols_list

\* a list that needs several chunks, the last one shorter than the others
C1_Witness ==
    /\ pc = "chunk_done"
    /\ args.chunk_size = 3
    /\ args.symbols_list = <<"A", "B", "C", "A">>
    /\ ret = << <<"A", "B", "C">>, <<"A">> >>

(* C2: _combine_data is a full outer join on symbol: the keys of the result *)
(* are the symbols of both inputs, one row per symbol; a symbol of both     *)
(* inputs has both fields populated; a symbol of one input has the other    *)
(* field present with value None.                                           *)
SymbolsOf(objs) == {objs[k].symbol : k \in 1..Len(objs)}

C2_CombineIsFullOuterJoin ==
    pc = "combine_done" =>
        LET ms == SymbolsOf(args.metrics_data)
            ps == SymbolsOf(args.market_data)
        IN /\ Keys(ret) = ms \cup ps
           /\ \A k, j \in 1..Len(ret) : ret[k].symbol = ret[j].symbol => k = j
           /\ \A k \in 1..Len(ret) :
                LET row == ret[k]
                IN /\ DOMAIN row = {"symbol", "metrics", "market_data"}
                   /\ (row.symbol \in ms) <=> (row.metrics # None)
                   /\ (row.symbol \in ps) <=> (row.market_data # None)
                   /\ row.metrics # None =>
                        /\ row.metrics[1].symbol = row.symbol
                        /\ \E n \in 1..Len(args.metrics_data) :
                             Dump(args.metrics_data[n]) = row.metrics[1]
                   /\ row.market_data # None =>
                        /\ row.market_data[1].symbol = row.symbol
                        /\ \E n \in 1..Len(args.market_data) :
                             Dump(args.market_data[n]) = row.market_data[1]

\* one symbol in both inputs, one only in the prices, and an empty-metrics row
C2_Witness ==
    /\ pc = "combine_done"
    /\ SymbolsOf(args.metrics_data) = {"A"}
    /\ SymbolsOf(args.market_data) = {"A", "B"}
    /\ Len(ret) = 2
    /\ ret[1].symbol = "A" /\ ret[1].metrics # None /\ ret[1].market_data # None
    /\ ret[2].symbol = "B" /\ ret[2].metrics = None /\ ret[2].market_data # None

-----------------------------------------------------------------------------
(* Reading the history of a gather_metrics call *)

METRICS == "get_market_metrics"
PRICES == "get_market_data_by_type"
STORE == "store_metric_data"

IsFetch(e) == e.op \in {METRICS, PRICES}

\* gather_metrics has ended and its session validation did not raise
Finished == pc \in {"returned", "raised"} /\ error # "SessionError"

\* the end of outer batch b (1-based) in the input list
BatchEnd(b) == Min(b * symbols_per_batch, Len(symbols_list))

\* the number of chunks of outer batch b, from the input list alone
NumChunks(b) ==
    (BatchEnd(b) - (b - 1) * symbols_per_batch + ChunkSize - 1) \div ChunkSize

\* chunk c of outer batch b, from the input list alone
ExpectedChunk(b, c) ==
    LET lo == (b - 1) * symbols_per_batch + (c - 1) * ChunkSize
        hi == Min(lo + ChunkSize, BatchEnd(b))
    IN [k \in 1..(hi - lo) |-> symbols_list[lo + k]]

NumBatches == (Len(symbols_list) + symbols_per_batch - 1) \div symbols_per_batch

\* the log positions of the calls of op for chunk c of batch b
CallsOf(op, b, c) ==
    {k \in 1..Len(log) : log[k].op = op /\ log[k].batch = b /\ log[k].chunk = c}

\* what the successful calls of op in batch b returned, in call order
Collected(op, b) ==
    LET sel == SelectSeq(log, LAMBDA e : e.op = op /\ e.batch = b /\ e.out = "ok")
    IN Flatten([k \in 1..Len(sel) |-> sel[k].answer])

\* the symbols some successful call of batch b returned
SymbolsReturnedIn(b) ==
    UNION {{log[k].answer[j].symbol : j \in 1..Len(log[k].answer)} :
             k \in {n \in 1..Len(log) : IsFetch(log[n]) /\ log[n].batch = b
                                        /\ log[n].out = "ok"}}

\* the symbols of the input list
Requested == {symbols_list[k] : k \in 1..Len(symbols_list)}

StoreCount(s) ==
    Cardinality({k \in 1..Len(log) : log[k].op = STORE /\ log[k].syms = <<s>>})

(* C3: whatever chunk calls raise, every chunk of every batch is fetched    *)
(* (metrics and prices), what earlier chunks returned is kept, and the      *)
(* call returns a mapping with a row for every symbol that a successful     *)
(* chunk call returned.                                                     *)
C3_FailedChunksAreIsolated ==
    /\ Finished =>
         /\ \A b \in 1..NumBatches : \A c \in 1..NumChunks(b) :
              /\ Cardinality(CallsOf(METRICS, b, c)) = 1
              /\ Cardinality(CallsOf(PRICES, b, c)) = 1
         /\ \A b \in 1..NumBatches : \A s \in SymbolsReturnedIn(b) :
              /\ pc = "returned"
              /\ s \in Keys(all_combined_data)
              /\ LET row == all_combined_data[IndexOf(all_combined_data, s)]
                 IN row.metrics # None \/ row.market_data # None
    /\ pc \in {"fetch_metrics", "fetch_market_data", "combine"} =>
         all_metrics = Collected(METRICS, batch_num + 1)
    /\ pc \in {"fetch_market_data", "combine"} =>
         all_market_data = Collected(PRICES, batch_num + 1)

\* the first metrics chunk of a batch raised, the second was fetched, and the
\* call returned with the second chunk's symbol
C3_Witness ==
    /\ pc = "returned"
    /\ \E k, j \in 1..Len(log) :
         /\ k < j
         /\ log[k].op = METRICS /\ log[k].chunk = 1 /\ log[k].out = "raise"
         /\ log[j].op = METRICS /\ log[j].chunk = 2 /\ log[j].out = "ok"
         /\ log[j].batch = log[k].batch
         /\ log[j].answer # <<>>
         /\ log[j].answer[1].symbol \in Keys(all_combined_data)

(* C4: gather_metrics returns normally for every input and every pattern of *)
(* failures; only a session-validation error can leave it.                  *)
C4_OnlySessionErrorsEscape == pc = "raised" => error = "SessionError"

(* C5: within one call the store is invoked exactly once for every symbol   *)
(* of the returned mapping.                                                 *)
C5_StoredExactlyOnce ==
    pc = "returned" =>
        \A s \in Keys(all_combined_data) : StoreCount(s) = 1

\* the outer batches of the input that hold s
BatchesHolding(s) ==
    {b \in 1..NumBatches :
        \E k \in ((b - 1) * symbols_per_batch + 1)..BatchEnd(b) :
            symbols_list[k] = s}

(* C5 as amended: the store is invoked once per outer batch whose combined  *)
(* mapping holds the symbol, hence exactly once for every symbol of the     *)
(* returned mapping that lies in a single outer batch of the input, and     *)
(* never for a symbol outside the returned mapping.                         *)
C5_StoredOncePerBatch ==
    Finished =>
        LET returned == [b \in 1..NumBatches |-> SymbolsReturnedIn(b)]
        IN /\ \A k \in 1..Len(log) :
                log[k].op = STORE => log[k].syms[1] \in Requested
           /\ \A s \in Requested :
                /\ StoreCount(s) =
                     Cardinality({b \in 1..NumBatches : s \in returned[b]})
                /\ s \notin Keys(all_combined_data) => StoreCount(s) = 0
           /\ \A s \in Keys(all_combined_data) :
                /\ StoreCount(s) >= 1
                /\ Cardinality(BatchesHolding(s)) = 1 => StoreCount(s) = 1

\* a symbol whose mapping failed and a symbol of another batch, each stored once
C5_Witness ==
    /\ pc = "returned"
    /\ NumBatches >= 2
    /\ \E k \in 1..Len(log) :
         /\ log[k].op = STORE /\ log[k].answer = <<"fallback">>
         /\ StoreCount(log[k].syms[1]) = 1
    /\ \A s \in Keys(all_combined_data) : StoreCount(s) = 1
    /\ Len(all_combined_data) >= 2

NoRepeats(lst) == \A k, j \in 1..Len(lst) : lst[k] = lst[j] => k = j

(* C6: after a run the number of rows inserted into equity_data equals the  *)
(* number of symbols of the returned mapping (no mapping hard-fails: a      *)
(* failed mapping stores the fallback row); the count is never smaller.     *)
C6_RowCountMatches ==
    (pc = "returned" /\ NoRepeats(symbols_list)) =>
        /\ Len(equity_data) = Len(all_combined_data)
        /\ \A s \in Keys(all_combined_data) :
             \E k \in 1..Len(equity_data) : equity_data[k].symbol = Some(s)

SymbolOnlyRow(s) ==
    [symbol |-> Some(s), bid |-> None, implied_volatility_index_rank |-> None]

(* C7: when mapping or storing one symbol's row fails, a row holding only   *)
(* the symbol is stored for it, and every other symbol of the batch is      *)
(* still mapped and stored.                                                 *)
C7_FallbackStoredAndBatchGoesOn ==
    /\ \A k \in 1..Len(log) :
         (log[k].op = STORE
          /\ (log[k].answer = <<"fallback">> \/ log[k].out = "db_error")) =>
            \E n \in 1..Len(equity_data) :
                equity_data[n] = SymbolOnlyRow(log[k].syms[1])
    /\ pc = "batch_end" =>
         \A n \in 1..Len(batch_combined_data) :
            \E k \in 1..Len(log) :
                /\ log[k].op = STORE
                /\ log[k].batch = batch_num + 1
                /\ log[k].syms = <<batch_combined_data[n].symbol>>

ValidationsAt == {k \in 1..Len(log) : log[k].op = "validate_session"}

(* C8: the session is validated exactly once per call, before the first     *)
(* fetch and never again; when the refresh of an expired session raises,    *)
(* the error reaches the caller and no fetch and no store is made.          *)
C8_ValidatedOnceUpFront ==
    /\ pc # "gather_call" => ValidationsAt = {1}
    /\ pc = "gather_call" => log = <<>>
    /\ (\E k \in 1..Len(log) : IsFetch(log[k]) \/ log[k].op = STORE) =>
          /\ log[1].out = "ok"
          /\ session = "valid"
    /\ (log # <<>> /\ log[1].out = "raise") =>
          /\ pc = "raised"
          /\ error = "SessionError"
          /\ Len(log) = 1
          /\ equity_data = <<>>
          /\ all_combined_data = <<>>

\* the refresh raised on a call with symbols to fetch
C8_Witness ==
    /\ pc = "raised"
    /\ error = "SessionError"
    /\ Len(symbols_list) > ChunkSize
    /\ log[1].out = "raise"

\* the place of an operation in the order of one call
Phase(e) ==
    CASE e.op = METRICS -> 1
      [] e.op = PRICES -> 2
      [] e.op = "combine" -> 3
      [] e.op = STORE -> 4

Ordered(e) == e.op \in {METRICS, PRICES, "combine", STORE}

Before(e, f) ==
    \/ e.batch < f.batch
    \/ e.batch = f.batch /\ Phase(e) < Phase(f)
    \/ e.batch = f.batch /\ Phase(e) = Phase(f) /\ e.chunk < f.chunk

(* C9: the operations of one call are totally ordered: in a batch the       *)
(* metrics chunks are fetched in chunk order, then the price chunks in      *)
(* chunk order, then comes the combine and then the stores; batch k is      *)
(* complete before batch k+1 starts.  (Every call is one atomic step of the *)
(* single control flow, so no two calls are in progress together; Before    *)
(* is a strict order, so neighbours in order put the whole log in order.)   *)
C9_OperationsTotallyOrdered ==
    /\ LET ops == SelectSeq(log, Ordered)
       IN \A k \in 1..(Len(ops) - 1) : Before(ops[k], ops[k + 1])
    /\ \A k \in 1..Len(log) :
         /\ IsFetch(log[k]) =>
              /\ log[k].chunk \in 1..NumChunks(log[k].batch)
              /\ log[k].syms = ExpectedChunk(log[k].batch, log[k].chunk)
         /\ log[k].op = "combine" =>
              \A c \in 1..NumChunks(log[k].batch) :
                 /\ \E n \in 1..(k - 1) : n \in CallsOf(METRICS, log[k].batch, c)
                 /\ \E n \in 1..(k - 1) : n \in CallsOf(PRICES, log[k].batch, c)
         /\ (Ordered(log[k]) /\ log[k].batch > 1) =>
              \E n \in 1..(k - 1) :
                 log[n].op = "combine" /\ log[n].batch = log[k].batch - 1

\* a batch of two chunks followed by a second batch, all stored
C9_Witness ==
    /\ pc = "returned"
    /\ NumBatches = 2
    /\ NumChunks(1) = 2
    /\ \E k \in 1..Len(log) : log[k].op = STORE /\ log[k].batch = 2
    /\ \E k \in 1..Len(log) : log[k].op = STORE /\ log[k].batch = 1

(* C10: with a positive delay_between_calls, a delay lies between every two *)
(* consecutive chunk calls of a chunked fetch, whether the earlier call     *)
(* succeeded or raised, and none follows the last chunk's call.             *)
C10_DelayBetweenChunkCalls ==
    delay_between_calls > 0 =>
        \A k \in 1..Len(log) :
            IsFetch(log[k]) =>
                LET last == log[k].chunk = NumChunks(log[k].batch)
                    slept == /\ k < Len(log)
                             /\ log[k + 1].op = "sleep"
                             /\ log[k + 1].out = "calls"
                IN /\ last => ~slept
                   /\ (~last /\ k < Len(log)) => slept

\* the log positions of the inter-batch sleeps
BatchSleeps == {k \in 1..Len(log) : log[k].op = "sleep" /\ log[k].out = "batches"}

(* C11: with a positive delay_between_batches, gather_metrics sleeps        *)
(* exactly B-1 times between its B = ceil(N / symbols_per_batch) outer      *)
(* batches (never when B <= 1): once after each batch but the last, after   *)
(* the combine and every store of that batch and before the first fetch of  *)
(* the next batch.                                                          *)
C11_SleepsBetweenBatches ==
    delay_between_batches > 0 =>
        /\ \A k \in BatchSleeps :
             /\ log[k].batch \in 1..(NumBatches - 1)
             /\ \A n \in BatchSleeps : log[n].batch = log[k].batch => n = k
             /\ \E n \in 1..(k - 1) :
                   log[n].op = "combine" /\ log[n].batch = log[k].batch
             /\ \A n \in 1..(k - 1) :
                   Ordered(log[n]) => log[n].batch <= log[k].batch
             /\ \A n \in (k + 1)..Len(log) :
                   Ordered(log[n]) => log[n].batch > log[k].batch
        /\ \A k \in 1..Len(log) :
             (Ordered(log[k]) /\ log[k].batch > 1) =>
                 \E n \in BatchSleeps : n < k /\ log[n].batch = log[k].batch - 1
        /\ Finished =>
             Cardinality(BatchSleeps) = IF NumBatches <= 1 THEN 0 ELSE NumBatches - 1

\* three batches with stored rows, two sleeps between them
C11_Witness ==
    /\ pc = "returned"
    /\ delay_between_batches > 0
    /\ NumBatches = 3
    /\ Cardinality(BatchSleeps) = 2
    /\ \E k \in 1..Len(log) : log[k].op = STORE /\ log[k].batch = 3
    /\ \E k \in 1..Len(log) : log[k].op = STORE /\ log[k].batch = 1

\* the symbol lists the calls of op carried, in call order
SentTo(op) ==
    LET sel == SelectSeq(log, LAMBDA e : e.op = op)
    IN [k \in 1..Len(sel) |-> sel[k].syms]

(* C22: every API call of gather_metrics carries a contiguous slice of the  *)
(* input list no longer than the batch length the caller supplied, and the  *)
(* slices sent to the metrics API, taken in call order, are the input list  *)
(* position by position (nothing skipped, nothing sent twice); likewise for *)
(* the price API.                                                           *)
C22_SlicesCoverTheListOnce ==
    /\ \A k \in 1..Len(log) :
         IsFetch(log[k]) =>
            /\ Len(log[k].syms) >= 1
            /\ Len(log[k].syms) <= symbols_per_batch
            /\ log[k].syms = ExpectedChunk(log[k].batch, log[k].chunk)
    /\ Finished =>
         /\ Flatten(SentTo(METRICS)) = symbols_list
         /\ Flatten(SentTo(PRICES)) = symbols_list

\* a list of two batches, the first of two chunks, one call of which raised
C22_Witness ==
    /\ pc = "returned"
    /\ Len(symbols_list) = ChunkSize + 2
    /\ symbols_per_batch = ChunkSize + 1
    /\ Len(SentTo(METRICS)) = 3
    /\ Len(SentTo(PRICES)[1]) = ChunkSize
    /\ \E k \in 1..Len(log) : IsFetch(log[k]) /\ log[k].out = "raise"

\* the symbols the successful calls of op returned, over the whole run
ReturnedBy(op) ==
    UNION {{log[k].answer[j].symbol : j \in 1..Len(log[k].answer)} :
             k \in {n \in 1..Len(log) : log[n].op = op /\ log[n].out = "ok"}}

\* the rows of table equity_data that carry symbol s
RowsOf(s) == {k \in 1..Len(equity_data) : equity_data[k].symbol = Some(s)}

\* the symbols one source returned and the other did not
OneSided ==
    (ReturnedBy(METRICS) \ ReturnedBy(PRICES))
    \cup (ReturnedBy(PRICES) \ ReturnedBy(METRICS))

(* C36: a symbol that one source returned and the other did not (its chunk  *)
(* call raised, or the answer left it out) is in the mapping gather_metrics *)
(* returns and has exactly one row in equity_data, whose attributes of the  *)
(* missing side are null, and the call does not raise; a requested symbol   *)
(* is missing from the mapping only when no call returned it.               *)
C36_OneSidedSymbolsAreStored ==
    Finished =>
        /\ \A s \in OneSided :
             /\ pc = "returned"
             /\ s \in Keys(all_combined_data)
             /\ Cardinality(RowsOf(s)) = 1
             /\ \A k \in RowsOf(s) :
                  /\ s \notin ReturnedBy(METRICS) =>
                        equity_data[k].implied_volatility_index_rank = None
                  /\ s \notin ReturnedBy(PRICES) => equity_data[k].bid = None
        /\ \A s \in Requested \ Keys(all_combined_data) :
             s \notin ReturnedBy(METRICS) \cup ReturnedBy(PRICES)

-----------------------------------------------------------------------------
(* SpecSub: one MarketDataSubscription                                      *)
(* (src/src/subscription/market_data_subscription.py) used by the callers   *)
(* of Callers.  asyncio runs one coroutine at a time: the coroutine of      *)
(* caller cur holds the event loop until it reaches an await that suspends  *)
(* it (cur = 0 then), and only then may another coroutine or a consumer     *)
(* task run.  Every await on the stream library or on a task is such a      *)
(* point.  A stream handle is a position of handles, a consumer task a      *)
(* position of tasks.                                                       *)

\* calls of connect, stop and download_historical_data made in one run
MaxCalls == 3
\* samples the feed delivers to consumer tasks in one run
MaxSamples == 2
\* library calls that raise in one run
MaxSubFaults == 1

\* the rest of the model, which the subscription leaves alone
others == <<pc, pvars, gvars, symbols, creds, budget, hvars>>

\* a fresh subscription, any configuration
InitObject ==
    /\ pc = "subscription"
    /\ args = <<>>
    /\ ret = <<>>
    /\ MgrIdle
    /\ GatherIdle
    /\ symbols \in {<<>>, <<"X", "Y">>}
    /\ creds \in BOOLEAN
    /\ SubNew
    /\ HistIdle

\* one caller: every call returns before the next one is made
InitSub ==
    /\ InitObject
    /\ budget = [c \in Callers |-> IF c = 1 THEN MaxCalls ELSE 0]

\* two callers: the second makes one call while a call of the first is
\* in progress
InitRace ==
    /\ InitObject
    /\ budget = [c \in Callers |-> IF c = 1 THEN MaxCalls - 1 ELSE 1]

Busy(c) == call[c].op # "idle"

\* a library call or constructor that raises uses up one fault
Fault(ok) == IF ok THEN 0 ELSE 1
MayFail(ok) == hist.faults + Fault(ok) <= MaxSubFaults

\* DXLinkStreamer(session): a new handle, not opened yet
NewHandle ==
    [state |-> "new", closes |-> 0, sub |-> FALSE, unsub |-> FALSE,
     raised |-> {}]
\* streamer.__aexit__(None, None, None) is invoked on handle h
Close(h) == [handles EXCEPT ![h].state = "closed", ![h].closes = @ + 1]

\* nothing is in progress and the last call was a stop() that returned
JustStopped == hist.last = <<"stop", "ok">> /\ \A d \in Callers : ~Busy(d)

(* a call begins: its coroutine takes the event loop.  The callers are      *)
(* interchangeable, so the lowest idle one makes the call.                  *)
Begin(c, op, first) ==
    /\ cur = 0
    /\ ~Busy(c)
    /\ \A d \in Callers : d < c => Busy(d)
    /\ budget[c] > 0
    /\ budget' = [budget EXCEPT ![c] = @ - 1]
    /\ call' = [call EXCEPT ![c] =
                  [IdleCall EXCEPT !.op = op, !.pc = first,
                                   !.again = op = "stop" /\ JustStopped]]
    /\ cur' = c
    /\ hist' = [hist EXCEPT
                  !.calls = @ + 1,
                  !.last = <<>>,
                  !.downloaded = @ \/ op = "download",
                  !.overlapped = @ \/ \E d \in Callers \ {c} : Busy(d),
                  !.interrupted = @ \/
                      (op = "stop" /\ \E d \in Callers \ {c} :
                          /\ call[d].op = "connect" /\ ~call[d].nested
                          /\ call[d].pc \in {"c_aenter", "c_subscribe"}),
                  !.reentered = @ \/
                      (op = "stop" /\ \E d \in Callers \ {c} :
                          /\ call[d].op = "stop"
                          /\ call[d].pc \in {"s_await_task", "s_unsub_wait",
                                             "s_aexit"})]
    /\ UNCHANGED <<pc, pvars, gvars, hvars, symbols, creds, sub_session,
                   streamer, is_running, listen_task, handles, tasks>>

CallConnect(c) == Begin(c, "connect", "c_check")
CallStop(c) == Begin(c, "stop", "s_begin")
CallDownload(c) == Begin(c, "download", "d_begin")

\* the call of caller c ends: op returned or raised
End(c, did, out, faulty) ==
    /\ call' = [call EXCEPT ![c] = IdleCall]
    /\ cur' = 0
    /\ hist' = [hist EXCEPT !.last = <<did, out>>, !.faults = @ + faulty]

\* a connect that does not look for a stream it already holds
ConnectCheck_no_stop(c) ==
    /\ cur = c /\ call[c].pc = "c_check"
    /\ call' = [call EXCEPT ![c].pc = "c_session"]
    /\ UNCHANGED <<others, sub_session, streamer, is_running, listen_task,
                   handles, tasks, cur, hist>>

(* connect, lines 37-38: if self.streamer: await self.stop() *)
ConnectCheck(c) ==
    /\ cur = c /\ call[c].pc = "c_check"
    /\ IF streamer # 0
       THEN call' = [call EXCEPT ![c].pc = "s_begin", ![c].nested = TRUE]
       ELSE call' = [call EXCEPT ![c].pc = "c_session"]
    /\ UNCHANGED <<others, sub_session, streamer, is_running, listen_task,
                   handles, tasks, cur, hist>>

(* connect, lines 41-50: the credentials, OAuthSession(...), the symbols *)
ConnectSession(c) ==
    /\ cur = c /\ call[c].pc = "c_session"
    /\ \E ok \in BOOLEAN :
         /\ MayFail(ok)
         /\ ~creds => ok
         /\ hist' = [hist EXCEPT !.faults = @ + Fault(ok)]
         /\ IF ~creds \/ ~ok
            THEN /\ call' = [call EXCEPT ![c].pc = "c_except"]
                 /\ UNCHANGED sub_session
            ELSE /\ sub_session' = "own"
                 /\ call' = [call EXCEPT ![c].pc =
                               IF symbols = <<>> THEN "c_except" ELSE "c_open"]
    /\ UNCHANGED <<others, streamer, is_running, listen_task, handles, tasks,
                   cur>>

(* connect, lines 53-54: self.streamer = DXLinkStreamer(self.session);      *)
(* await self.streamer.__aenter__()                                         *)
ConnectOpen(c) ==
    /\ cur = c /\ call[c].pc = "c_open"
    /\ handles' = Append(handles, NewHandle)
    /\ streamer' = Len(handles) + 1
    /\ call' = [call EXCEPT ![c].pc = "c_aenter", ![c].h = Len(handles) + 1]
    /\ cur' = 0
    /\ UNCHANGED <<others, sub_session, is_running, listen_task, tasks, hist>>

(* connect resumes from __aenter__; line 57: await                          *)
(* self.streamer.subscribe(...), an AttributeError when a stop() has        *)
(* cleared self.streamer meanwhile                                          *)
ConnectOpened(c) ==
    /\ cur = 0 /\ call[c].pc = "c_aenter"
    /\ \E ok \in BOOLEAN :
         /\ MayFail(ok)
         /\ hist' = [hist EXCEPT !.faults = @ + Fault(ok)]
         /\ handles' = IF ok /\ handles[call[c].h].state = "new"
                       THEN [handles EXCEPT ![call[c].h].state = "open"]
                       ELSE handles
         /\ IF ok /\ streamer # 0
            THEN /\ call' = [call EXCEPT ![c].pc = "c_subscribe",
                                         ![c].h = streamer]
                 /\ cur' = 0
            ELSE /\ call' = [call EXCEPT ![c].pc = "c_except"]
                 /\ cur' = c
    /\ UNCHANGED <<others, sub_session, streamer, is_running, listen_task,
                   tasks>>

\* asyncio.create_task(self._listen_for_data()): the task has not run yet
NewTask == [state |-> "pending", h |-> 0, cancel |-> FALSE, end |-> "none"]

(* connect resumes from subscribe; lines 60-64: is_running = True,          *)
(* listen_task = asyncio.create_task(...), return                           *)
ConnectSubscribed(c) ==
    /\ cur = 0 /\ call[c].pc = "c_subscribe"
    /\ \E ok \in BOOLEAN :
         /\ MayFail(ok)
         /\ IF ok
            THEN /\ is_running' = TRUE
                 /\ tasks' = Append(tasks, NewTask)
                 /\ listen_task' = Len(tasks) + 1
                 /\ handles' = [handles EXCEPT ![call[c].h].sub = TRUE]
                 /\ End(c, "connect", "ok", 0)
            ELSE /\ call' = [call EXCEPT ![c].pc = "c_except"]
                 /\ cur' = c
                 /\ hist' = [hist EXCEPT !.faults = @ + 1]
                 /\ UNCHANGED <<is_running, tasks, listen_task, handles>>
    /\ UNCHANGED <<others, sub_session, streamer>>

\* an except clause that re-raises without the cleanup
ConnectExcept_no_cleanup(c) ==
    /\ cur = c /\ call[c].pc = "c_except"
    /\ End(c, "connect", "raise", 0)
    /\ UNCHANGED <<others, sub_session, streamer, is_running, listen_task,
                   handles, tasks>>

(* connect, lines 68-71: except Exception: await self.cleanup(); raise      *)
(* (cleanup, lines 128-130 and 138)                                         *)
ConnectExcept(c) ==
    /\ cur = c /\ call[c].pc = "c_except"
    /\ IF streamer # 0
       THEN /\ handles' = Close(streamer)
            /\ call' = [call EXCEPT ![c].pc = "c_aexit", ![c].h = streamer]
            /\ cur' = 0
            /\ UNCHANGED <<sub_session, hist>>
       ELSE /\ sub_session' = "none"
            /\ End(c, "connect", "raise", 0)
            /\ UNCHANGED handles
    /\ UNCHANGED <<others, streamer, is_running, listen_task, tasks>>

(* cleanup resumes from __aexit__, lines 134-138, and connect re-raises *)
ConnectCleaned(c) ==
    /\ cur = 0 /\ call[c].pc = "c_aexit"
    /\ streamer' = 0
    /\ sub_session' = "none"
    /\ End(c, "connect", "raise", 0)
    /\ UNCHANGED <<others, is_running, listen_task, handles, tasks>>

(* stop, lines 98-104: is_running = False; cancel the task and await it *)
StopBegin(c) ==
    /\ cur = c /\ call[c].pc = "s_begin"
    /\ is_running' = FALSE
    /\ IF listen_task # 0 /\ tasks[listen_task].state # "done"
       THEN /\ tasks' = [tasks EXCEPT ![listen_task].cancel = TRUE]
            /\ call' = [call EXCEPT ![c].pc = "s_await_task",
                                    ![c].t = listen_task]
            /\ cur' = 0
       ELSE /\ call' = [call EXCEPT ![c].pc = "s_unsub"]
            /\ UNCHANGED <<tasks, cur>>
    /\ UNCHANGED <<others, sub_session, streamer, listen_task, handles, hist>>

(* stop resumes from await self.listen_task once that task is done          *)
(* (lines 104-106: its CancelledError is caught)                            *)
StopTaskDone(c) ==
    /\ cur = 0 /\ call[c].pc = "s_await_task"
    /\ tasks[call[c].t].state = "done"
    /\ call' = [call EXCEPT ![c].pc = "s_unsub"]
    /\ cur' = c
    /\ UNCHANGED <<others, sub_session, streamer, is_running, listen_task,
                   handles, tasks, hist>>

(* main.py, line 52: asyncio.wait_for(market_sub.stop(), timeout=5.0)       *)
(* expires while stop() awaits the task.  Task.cancel() of a coroutine      *)
(* that awaits a task passes the request on to that task and leaves the     *)
(* coroutine waiting for it.                                                *)
StopTimeout(c) ==
    /\ cur = 0 /\ call[c].pc = "s_await_task"
    /\ call[c].op = "stop" /\ ~call[c].timed_out
    /\ tasks[call[c].t].state # "done"
    /\ call' = [call EXCEPT ![c].timed_out = TRUE]
    /\ tasks' = [tasks EXCEPT ![call[c].t].cancel = TRUE]
    /\ UNCHANGED <<others, sub_session, streamer, is_running, listen_task,
                   handles, cur, hist>>

(* stop, lines 109-111: if self.streamer and self.symbols: unsubscribe *)
StopUnsubscribe(c) ==
    /\ cur = c /\ call[c].pc = "s_unsub"
    /\ IF streamer # 0 /\ symbols # <<>>
       THEN /\ handles' = [handles EXCEPT ![streamer].unsub = TRUE]
            /\ call' = [call EXCEPT ![c].pc = "s_unsub_wait",
                                    ![c].h = streamer]
            /\ cur' = 0
       ELSE /\ call' = [call EXCEPT ![c].pc = "s_cleanup"]
            /\ UNCHANGED <<handles, cur>>
    /\ UNCHANGED <<others, sub_session, streamer, is_running, listen_task,
                   tasks, hist>>

\* the library call named step raised on handle h
Raised(h, step, ok) ==
    IF ok THEN handles ELSE [handles EXCEPT ![h].raised = @ \cup {step}]

\* stop returns: to its caller, or into the connect that awaited it
AfterStop(c, faulty) ==
    IF call[c].nested
    THEN /\ call' = [call EXCEPT ![c].pc = "c_session", ![c].nested = FALSE]
         /\ cur' = c
         /\ hist' = [hist EXCEPT !.faults = @ + faulty]
    ELSE End(c, "stop", "ok", faulty)

\* a stop without the try of lines 110-114: what unsubscribe raises is
\* caught by line 121 and the cleanup is skipped
StopUnsubscribed_unguarded(c) ==
    /\ cur = 0 /\ call[c].pc = "s_unsub_wait"
    /\ \E ok \in BOOLEAN :
         /\ MayFail(ok)
         /\ handles' = Raised(call[c].h, "unsubscribe", ok)
         /\ IF ok
            THEN /\ hist' = hist
                 /\ call' = [call EXCEPT ![c].pc = "s_cleanup"]
                 /\ cur' = c
            ELSE AfterStop(c, 1)
    /\ UNCHANGED <<others, sub_session, streamer, is_running, listen_task,
                   tasks>>

(* stop resumes from unsubscribe; lines 113-114 catch what it raised *)
StopUnsubscribed(c) ==
    /\ cur = 0 /\ call[c].pc = "s_unsub_wait"
    /\ \E ok \in BOOLEAN :
         /\ MayFail(ok)
         /\ hist' = [hist EXCEPT !.faults = @ + Fault(ok)]
         /\ handles' = Raised(call[c].h, "unsubscribe", ok)
    /\ call' = [call EXCEPT ![c].pc = "s_cleanup"]
    /\ cur' = c
    /\ UNCHANGED <<others, sub_session, streamer, is_running, listen_task,
                   tasks>>

\* a cleanup that calls stop() again
StopCleanup_restops(c) ==
    /\ cur = c /\ call[c].pc = "s_cleanup"
    /\ call' = [call EXCEPT ![c].pc = "s_begin"]
    /\ UNCHANGED <<others, sub_session, streamer, is_running, listen_task,
                   handles, tasks, cur, hist>>

(* stop, line 117: await self.cleanup() (lines 128-130 and 138) *)
StopCleanup(c) ==
    /\ cur = c /\ call[c].pc = "s_cleanup"
    /\ IF streamer # 0
       THEN /\ handles' = Close(streamer)
            /\ call' = [call EXCEPT ![c].pc = "s_aexit", ![c].h = streamer]
            /\ cur' = 0
            /\ UNCHANGED <<sub_session, hist>>
       ELSE /\ sub_session' = "none"
            /\ AfterStop(c, 0)
            /\ UNCHANGED handles
    /\ UNCHANGED <<others, streamer, is_running, listen_task, tasks>>

\* a cleanup without the finally clause of lines 134-135
StopClosed_keeps_handle(c) ==
    /\ cur = 0 /\ call[c].pc = "s_aexit"
    /\ sub_session' = "none"
    /\ \E ok \in BOOLEAN :
         /\ MayFail(ok)
         /\ handles' = Raised(call[c].h, "__aexit__", ok)
         /\ AfterStop(c, Fault(ok))
    /\ UNCHANGED <<others, streamer, is_running, listen_task, tasks>>

(* cleanup resumes from __aexit__, which returned or raised (caught,     *)
(* lines 132-133); lines 134-138 clear both references and stop returns  *)
StopClosed(c) ==
    /\ cur = 0 /\ call[c].pc = "s_aexit"
    /\ streamer' = 0
    /\ sub_session' = "none"
    /\ \E ok \in BOOLEAN :
         /\ MayFail(ok)
         /\ handles' = Raised(call[c].h, "__aexit__", ok)
         /\ AfterStop(c, Fault(ok))
    /\ UNCHANGED <<others, is_running, listen_task, tasks>>

\* consumer task t ends
Finish(t, how) == [tasks EXCEPT ![t].state = "done", ![t].end = how]

(* the event loop first runs task t: a cancelled task never starts;         *)
(* _listen_for_data, line 77: self.streamer.listen(Candle) binds the task   *)
(* to the handle held now, an AttributeError (caught, lines 88-89) when     *)
(* none is held                                                             *)
TaskStart(t) ==
    /\ cur = 0 /\ tasks[t].state = "pending"
    /\ tasks' = IF tasks[t].cancel THEN Finish(t, "cancelled")
                ELSE IF streamer = 0 THEN Finish(t, "error")
                ELSE [tasks EXCEPT ![t].state = "waiting", ![t].h = streamer]
    /\ UNCHANGED <<others, sub_session, streamer, is_running, listen_task,
                   handles, call, cur, hist>>

\* what on_candle does with a sample (lines 152-190, all errors caught)
Outcomes == {"stored", "fetch_raised", "store_raised"}

\* a loop without the try of lines 81-84 and 152-190: an error ends it
TaskSample_unguarded(t) ==
    /\ cur = 0 /\ tasks[t].state = "waiting" /\ ~tasks[t].cancel
    /\ handles[tasks[t].h].state = "open"
    /\ hist.samples < MaxSamples
    /\ IF ~is_running
       THEN /\ tasks' = [tasks EXCEPT ![t].state = "done", ![t].end = "break"]
            /\ hist' = [hist EXCEPT
                          !.samples = @ + 1,
                          !.events = Append(@, [task |-> t, out |-> "break"])]
       ELSE \E out \in {"stored", "fetch_raised", "store_raised"} :
            /\ hist.faults + Fault(out = "stored") <= MaxSubFaults
            /\ hist' = [hist EXCEPT
                          !.samples = @ + 1,
                          !.faults = @ + Fault(out = "stored"),
                          !.events = Append(@, [task |-> t, out |-> out])]
            /\ tasks' = IF out = "stored" THEN tasks
                        ELSE [tasks EXCEPT ![t].state = "done",
                                           ![t].end = "error"]
    /\ UNCHANGED <<others, sub_session, streamer, is_running, listen_task,
                   handles, call, cur>>

(* the feed delivers a sample to task t, lines 77-84: break when not        *)
(* running, else on_candle                                                  *)
TaskSample(t) ==
    /\ cur = 0 /\ tasks[t].state = "waiting" /\ ~tasks[t].cancel
    /\ handles[tasks[t].h].state = "open"
    /\ hist.samples < MaxSamples
    /\ IF ~is_running
       THEN /\ tasks' = Finish(t, "break")
            /\ hist' = [hist EXCEPT
                          !.samples = @ + 1,
                          !.events = Append(@, [task |-> t, out |-> "break"])]
       ELSE /\ \E out \in Outcomes :
                 /\ MayFail(out = "stored")
                 /\ hist' = [hist EXCEPT
                               !.samples = @ + 1,
                               !.faults = @ + Fault(out = "stored"),
                               !.events = Append(@, [task |-> t, out |-> out])]
            /\ UNCHANGED tasks
    /\ UNCHANGED <<others, sub_session, streamer, is_running, listen_task,
                   handles, call, cur>>

(* the stream raises inside listen(); lines 88-89 catch it, the task ends *)
TaskStreamError(t) ==
    /\ cur = 0 /\ tasks[t].state = "waiting" /\ ~tasks[t].cancel
    /\ MayFail(FALSE)
    /\ tasks' = Finish(t, "error")
    /\ hist' = [hist EXCEPT !.faults = @ + 1]
    /\ UNCHANGED <<others, sub_session, streamer, is_running, listen_task,
                   handles, call, cur>>

(* the cancellation reaches the task at its await; lines 86-87 catch it *)
TaskCancelled(t) ==
    /\ cur = 0 /\ tasks[t].state = "waiting" /\ tasks[t].cancel
    /\ tasks' = Finish(t, "cancelled")
    /\ UNCHANGED <<others, sub_session, streamer, is_running, listen_task,
                   handles, call, cur, hist>>

(* download_historical_data, line 216: async with DXLinkStreamer(session) *)
DownloadOpen(c) ==
    /\ cur = c /\ call[c].pc = "d_begin"
    /\ handles' = Append(handles, NewHandle)
    /\ call' = [call EXCEPT ![c].pc = "d_aenter", ![c].h = Len(handles) + 1]
    /\ cur' = 0
    /\ UNCHANGED <<others, sub_session, streamer, is_running, listen_task,
                   tasks, hist>>

(* __aenter__ returns; lines 217-220: self.streamer = streamer,             *)
(* self.session = session, await streamer.subscribe_candle(...).  When      *)
(* __aenter__ raises the body is skipped and the finally clause runs.       *)
DownloadOpened(c) ==
    /\ cur = 0 /\ call[c].pc = "d_aenter"
    /\ \E ok \in BOOLEAN :
         /\ MayFail(ok)
         /\ hist' = [hist EXCEPT !.faults = @ + Fault(ok)]
         /\ IF ok
            THEN /\ handles' = [handles EXCEPT ![call[c].h].state = "open"]
                 /\ streamer' = call[c].h
                 /\ sub_session' = "given"
                 /\ call' = [call EXCEPT ![c].pc = "d_subscribe"]
                 /\ cur' = 0
            ELSE /\ call' = [call EXCEPT ![c].pc = "d_finally",
                                         ![c].failed = TRUE]
                 /\ cur' = c
                 /\ UNCHANGED <<handles, streamer, sub_session>>
    /\ UNCHANGED <<others, is_running, listen_task, tasks>>

(* subscribe_candle returns and the loop of lines 229-249 waits for its     *)
(* first sample, or subscribe_candle raises and the async with is left      *)
DownloadSubscribed(c) ==
    /\ cur = 0 /\ call[c].pc = "d_subscribe"
    /\ \E ok \in BOOLEAN :
         /\ MayFail(ok)
         /\ hist' = [hist EXCEPT !.faults = @ + Fault(ok)]
         /\ IF ok
            THEN /\ call' = [call EXCEPT ![c].pc = "d_loop"]
                 /\ cur' = 0
            ELSE /\ call' = [call EXCEPT ![c].pc = "d_exit",
                                         ![c].failed = TRUE]
                 /\ cur' = c
    /\ UNCHANGED <<others, sub_session, streamer, is_running, listen_task,
                   handles, tasks>>

(* the loop of lines 229-249 ends: by a break (completion or the 3 second   *)
(* silence) or by an error of the stream                                    *)
DownloadLoopEnds(c) ==
    /\ cur = 0 /\ call[c].pc = "d_loop"
    /\ \E ok \in BOOLEAN :
         /\ MayFail(ok)
         /\ hist' = [hist EXCEPT !.faults = @ + Fault(ok)]
         /\ call' = [call EXCEPT ![c].pc = "d_exit", ![c].failed = ~ok]
    /\ cur' = c
    /\ UNCHANGED <<others, sub_session, streamer, is_running, listen_task,
                   handles, tasks>>

(* leaving the async with of line 216: streamer.__aexit__ on its handle *)
DownloadExit(c) ==
    /\ cur = c /\ call[c].pc = "d_exit"
    /\ handles' = Close(call[c].h)
    /\ call' = [call EXCEPT ![c].pc = "d_exit_wait"]
    /\ cur' = 0
    /\ UNCHANGED <<others, sub_session, streamer, is_running, listen_task,
                   tasks, hist>>

DownloadExited(c) ==
    /\ cur = 0 /\ call[c].pc = "d_exit_wait"
    /\ call' = [call EXCEPT ![c].pc = "d_finally"]
    /\ cur' = c
    /\ UNCHANGED <<others, sub_session, streamer, is_running, listen_task,
                   handles, tasks, hist>>

\* lines 254-255, unless an error is on its way: the loop over the symbols
\* parameter raises AttributeError in its first turn (MarketDataStore has
\* no store_metric_data_history), so the call returns only for an empty list
AfterDownload(c) ==
    \E out \in {"ok", "raise"} :
        /\ call[c].failed => out = "raise"
        /\ End(c, "download", out, 0)

(* download_historical_data, lines 251-252: finally: await self.cleanup() *)
DownloadFinally(c) ==
    /\ cur = c /\ call[c].pc = "d_finally"
    /\ IF streamer # 0
       THEN /\ handles' = Close(streamer)
            /\ call' = [call EXCEPT ![c].pc = "d_aexit", ![c].h = streamer]
            /\ cur' = 0
            /\ UNCHANGED <<sub_session, hist>>
       ELSE /\ sub_session' = "none"
            /\ AfterDownload(c)
            /\ UNCHANGED handles
    /\ UNCHANGED <<others, streamer, is_running, listen_task, tasks>>

(* cleanup resumes from __aexit__, lines 134-138 *)
DownloadCleaned(c) ==
    /\ cur = 0 /\ call[c].pc = "d_aexit"
    /\ streamer' = 0
    /\ sub_session' = "none"
    /\ AfterDownload(c)
    /\ UNCHANGED <<others, is_running, listen_task, handles, tasks>>

Tasks == 1..Len(tasks)

\* the steps of connect, stop and the consumer tasks
NextSub ==
    \/ \E c \in Callers : CallConnect(c)
    \/ \E c \in Callers : CallStop(c)
    \/ \E c \in Callers : ConnectCheck(c)
    \/ \E c \in Callers : ConnectSession(c)
    \/ \E c \in Callers : ConnectOpen(c)
    \/ \E c \in Callers : ConnectOpened(c)
    \/ \E c \in Callers : ConnectSubscribed(c)
    \/ \E c \in Callers : ConnectExcept(c)
    \/ \E c \in Callers : ConnectCleaned(c)
    \/ \E c \in Callers : StopBegin(c)
    \/ \E c \in Callers : StopTaskDone(c)
    \/ \E c \in Callers : StopTimeout(c)
    \/ \E c \in Callers : StopUnsubscribe(c)
    \/ \E c \in Callers : StopUnsubscribed(c)
    \/ \E c \in Callers : StopCleanup(c)
    \/ \E c \in Callers : StopClosed(c)
    \/ \E t \in Tasks : TaskStart(t)
    \/ \E t \in Tasks : TaskSample(t)
    \/ \E t \in Tasks : TaskStreamError(t)
    \/ \E t \in Tasks : TaskCancelled(t)

\* the steps of download_historical_data
NextDownload ==
    \/ \E c \in Callers : CallDownload(c)
    \/ \E c \in Callers : DownloadOpen(c)
    \/ \E c \in Callers : DownloadOpened(c)
    \/ \E c \in Callers : DownloadSubscribed(c)
    \/ \E c \in Callers : DownloadLoopEnds(c)
    \/ \E c \in Callers : DownloadExit(c)
    \/ \E c \in Callers : DownloadExited(c)
    \/ \E c \in Callers : DownloadFinally(c)
    \/ \E c \in Callers : DownloadCleaned(c)

NextAll == NextSub \/ NextDownload

\* connect and stop, one call after the other
SpecSub == InitSub /\ [][NextSub]_vars
\* connect and stop, the second caller's call overlapping the first's
SpecRace == InitRace /\ [][NextSub]_vars
\* connect, stop and download_historical_data, overlapping or not
SpecAll == InitRace /\ [][NextAll]_vars

\* the same steps under the event loop's scheduling: a coroutine or task
\* that can run is run
SpecSubFair == SpecSub /\ WF_vars(NextSub)

\* a running subscription: the state in which the first connect() of
\* SpecSub returns, its consumer task waiting for a sample
SubRunning ==
    /\ HistIdle
    /\ symbols \in {<<"X">>, <<"X", "Y">>}
    /\ creds = TRUE
    /\ sub_session = "own"
    /\ streamer = 1
    /\ is_running = TRUE
    /\ listen_task = 1
    /\ handles = <<[NewHandle EXCEPT !.state = "open", !.sub = TRUE]>>
    /\ tasks = <<[NewTask EXCEPT !.state = "waiting", !.h = 1]>>
    /\ call = [c \in Callers |-> IdleCall]
    /\ cur = 0
    /\ hist = [NoHistory EXCEPT !.calls = 1, !.last = <<"connect", "ok">>]

\* a running subscription and nothing else
InitRunning ==
    /\ pc = "subscription"
    /\ args = <<>>
    /\ ret = <<>>
    /\ MgrIdle
    /\ GatherIdle
    /\ SubRunning

\* each caller makes one call on the running subscription, the second
\* caller's while the first caller's is in progress
InitOverlap ==
    /\ InitRunning
    /\ symbols = <<"X", "Y">>
    /\ budget = [c \in Callers |-> 1]

\* two overlapping calls on a running subscription, fairly scheduled
SpecOverlap == InitOverlap /\ [][NextSub]_vars /\ WF_vars(NextSub)

-----------------------------------------------------------------------------
(* Reading the state of a subscription *)

StopPlaces == {"s_begin", "s_await_task", "s_unsub", "s_unsub_wait",
               "s_cleanup", "s_aexit"}
ConnectPlaces == {"c_session", "c_open", "c_aenter", "c_subscribe",
                  "c_except", "c_aexit"}

Idle == \A c \in Callers : ~Busy(c)
Live == {t \in Tasks : tasks[t].state # "done"}
Unreleased == {h \in 1..Len(handles) : handles[h].state # "closed"}

(* The lifecycle state of section 4.4, read off the object: running while   *)
(* is_running is set; stopping while a stop() past its first line has a     *)
(* task to wait for or a handle to release; connecting while a connect()    *)
(* holds a session or a handle it acquired; disconnected otherwise.         *)
lifecycle ==
    IF is_running THEN "running"
    ELSE IF \E c \in Callers :
              /\ call[c].pc \in StopPlaces \ {"s_begin"}
              /\ streamer # 0 \/ call[c].pc = "s_await_task"
         THEN "stopping"
    ELSE IF \E c \in Callers :
              /\ call[c].pc \in ConnectPlaces
              /\ sub_session # "none" \/ streamer # 0
         THEN "connecting"
    ELSE "disconnected"

Chain == {<<"disconnected", "connecting">>, <<"connecting", "running">>,
          <<"running", "stopping">>, <<"stopping", "disconnected">>}

(* C12: whatever connect() and stop() calls are made, the lifecycle state   *)
(* changes only along disconnected -> connecting -> running -> stopping ->  *)
(* disconnected.                                                            *)
C12_OnlyAlongTheChain ==
    [][lifecycle' # lifecycle => <<lifecycle, lifecycle'>> \in Chain]_vars

\* the fields a stop() has to leave cleared
Cleared == ~is_running /\ streamer = 0 /\ sub_session = "none"

(* C13: stop() never raises and always returns, whether the subscription    *)
(* was never connected, is running or was already stopped; when it has      *)
(* returned is_running is false and no handle and no session are held; a    *)
(* stop() made right after a stop() changes nothing.                        *)
C13_StopReturnsCleared ==
    /\ [](hist.last # <<"stop", "raise">>)
    /\ [](hist.last = <<"stop", "ok">> => Cleared)
    /\ [][(\E c \in Callers : call[c].again) =>
             UNCHANGED <<streamer, sub_session, is_running, listen_task,
                         handles, tasks>>]_vars
    /\ \A c \in Callers : (call[c].op = "stop") ~> (call[c].op = "idle")

\* a stop() of a running subscription returned and a second one is under way
C13_Witness ==
    /\ \E c \in Callers : call[c].again /\ call[c].pc = "s_cleanup"
    /\ Len(tasks) = 1 /\ tasks[1].end = "cancelled"
    /\ Len(handles) = 1 /\ handles[1].state = "closed" /\ handles[1].unsub

(* C14: when stop() runs while connect() is suspended in __aenter__ or in   *)
(* subscribe, then once both calls have ended the subscription is           *)
(* disconnected: is_running is false, no handle is held and no consumer     *)
(* task is live.                                                            *)
C14_StopDuringConnectDisconnects ==
    (hist.interrupted /\ hist.calls = 2 /\ Idle) =>
        (~is_running /\ streamer = 0 /\ Live = {})

(* C15: connect() on a subscription that holds a stream stops it first      *)
(* (consumer cancelled, symbols unsubscribed, handle released) and only     *)
(* then opens a new one: at any moment at most one handle is unreleased     *)
(* and at most one consumer task is live, and they are the ones the         *)
(* subscription holds.                                                      *)
C15_OneStreamOneConsumer ==
    /\ Cardinality(Unreleased) <= 1
    /\ Cardinality(Live) <= 1
    /\ \A h \in 1..Len(handles) :
         h # streamer =>
            /\ handles[h].state = "closed"
            /\ handles[h].sub => handles[h].unsub
    /\ \A t \in Tasks : t # listen_task => tasks[t].state = "done"

\* a second connect() replaced a running stream
C15_Witness ==
    /\ Idle /\ is_running /\ streamer = 2
    /\ Len(handles) = 2 /\ handles[2].state = "open"
    /\ handles[1].state = "closed" /\ handles[1].unsub
    /\ Len(tasks) = 2 /\ tasks[1].end = "cancelled" /\ tasks[2].state = "waiting"

(* C16: connect() raises when the symbol list is empty or a credential is   *)
(* missing, and whenever connect() has raised nothing of the attempt is     *)
(* left: no handle and no session are held, every handle created is         *)
(* released, is_running is false and no consumer task is live.              *)
C16_FailedConnectReleasesAll ==
    /\ hist.last = <<"connect", "ok">> => (creds /\ symbols # <<>>)
    /\ hist.last = <<"connect", "raise">> =>
          (Cleared /\ Unreleased = {} /\ Live = {})

\* an attempt on a running subscription failed after its handle was created
C16_Witness ==
    /\ hist.last = <<"connect", "raise">>
    /\ Len(handles) = 2 /\ handles[2].closes = 1 /\ ~handles[2].sub
    /\ Len(tasks) = 1 /\ tasks[1].end = "cancelled"

\* the last sample event
LastEvent == hist.events[Len(hist.events)]

(* C17: an error raised while on_candle processes a sample (the metrics     *)
(* fetch or the store raising) does not end the consumer loop: the task     *)
(* that took the sample keeps waiting for the next one, and every sample    *)
(* delivered while the subscription runs is processed.                      *)
C17_SampleErrorsKeepTheLoop ==
    /\ [](Len(hist.events) = hist.samples)
    /\ [][(hist'.samples > hist.samples /\ is_running) =>
             /\ LastEvent'.out \in Outcomes
             /\ tasks'[LastEvent'.task].state = "waiting"]_vars

\* a sample whose metrics fetch raised, then one that was stored
C17_Witness ==
    /\ Len(hist.events) = 2
    /\ hist.events[1].out = "fetch_raised"
    /\ hist.events[2].out = "stored"
    /\ hist.events[1].task = hist.events[2].task

(* C18: whenever a stream handle is released (by stop(), by the failure     *)
(* path of connect() or at the end of download_historical_data) the         *)
(* consumer task reading from it has ended before, so no live consumer is   *)
(* bound to a released handle.                                              *)
C18_ConsumerEndsBeforeRelease ==
    \A t \in Tasks :
        tasks[t].state = "waiting" => handles[tasks[t].h].state # "closed"

(* C19: when the consumer does not acknowledge its cancellation, stop()     *)
(* gives up waiting for it after the fixed time and goes on to unsubscribe  *)
(* and to release the handle: once the time is over no stop() is still      *)
(* waiting for the task.                                                    *)
C19_WaitIsBounded ==
    \A c \in Callers : call[c].timed_out => call[c].pc # "s_await_task"

(* C24: a consumer loop ends only because its task was cancelled or because *)
(* the stream it reads raised an error: no loop ends at the break of line   *)
(* 79 and none ends before it was bound to a stream.                        *)
C24_EndsByCancelOrStreamError ==
    \A t \in Tasks :
        tasks[t].state = "done" =>
            \/ tasks[t].end = "cancelled"
            \/ tasks[t].end = "error" /\ tasks[t].h # 0

(* C26: every teardown step of stop() is guarded on its own: a stop() whose *)
(* unsubscribe raised still closes the handle, a stop() whose close raised  *)
(* still clears the handle and the session reference, and no stop() raises. *)
C26_TeardownStepsAreGuarded ==
    /\ [](hist.last # <<"stop", "raise">>)
    /\ [][\A c \in Callers :
            (call[c].pc \in StopPlaces /\ call'[c].pc \notin StopPlaces) =>
               /\ streamer' = 0 /\ sub_session' = "none"
               /\ \A h \in 1..Len(handles') :
                    handles'[h].raised # {} => handles'[h].closes >= 1]_vars

\* a stop() of a running subscription returned although the close raised
C26_Witness ==
    /\ hist.last = <<"stop", "ok">>
    /\ Len(handles) = 1 /\ handles[1].raised = {"__aexit__"}
    /\ handles[1].unsub /\ handles[1].closes = 1
    /\ Cleared /\ Live = {}

(* C27: stop() is safe to invoke re-entrantly: when a second stop() starts   *)
(* while a first stop() is suspended at an await, both return without       *)
(* raising and without deadlock, the subscription ends disconnected (not    *)
(* running, no handle, no session, no live consumer), and no stop() runs    *)
(* inside a stop().                                                         *)
C27_ReentrantStopIsSafe ==
    /\ [](hist.reentered => hist.last # <<"stop", "raise">>)
    /\ []((hist.reentered /\ Idle) =>
            (hist.last = <<"stop", "ok">> /\ Cleared /\ Live = {}))
    /\ [](\A c \in Callers : call[c].nested => call[c].op = "connect")
    /\ \A c \in Callers :
         (hist.reentered /\ call[c].op = "stop") ~> Idle

\* both stop() calls have returned; each had unsubscribed and closed
C27_Witness ==
    /\ hist.reentered /\ Idle /\ hist.calls = 3
    /\ handles[1].closes = 2
    /\ tasks[1].end = "cancelled"

(* C34: in every reachable state, whatever the interleaving of connect,     *)
(* stop, download_historical_data and the consumer loop, is_running implies *)
(* that the subscription holds an open stream handle and that its consumer  *)
(* task has not finished.                                                   *)
C34_RunningHoldsStreamAndConsumer ==
    is_running =>
        /\ streamer # 0 /\ handles[streamer].state = "open"
        /\ listen_task # 0 /\ tasks[listen_task].state # "done"

(* C35: every handle the subscription opened is released exactly once: no   *)
(* handle is closed twice, and once a stop() has returned and no call is in *)
(* progress no handle is left unreleased.                                   *)
C35_HandlesReleasedExactlyOnce ==
    /\ \A h \in 1..Len(handles) : handles[h].closes <= 1
    /\ JustStopped => \A h \in 1..Len(handles) : handles[h].state # "open"

-----------------------------------------------------------------------------
(* SpecListen: the consumer loop of a running subscription, sample by       *)
(* sample: _listen_for_data (lines 74-89) and on_candle (lines 150-190),    *)
(* with the rows handed to store_candle_data in hist.market_data.  It       *)
(* starts where a connect() of SpecSub has returned and no further call is  *)
(* made.                                                                    *)

\* samples the feed delivers to the consumer loop in SpecListen
MaxListened == 3

\* get_market_metrics answers with a snapshot, with an empty list, or raises
Snapshots == {"full", "empty", "raise"}

\* no call is made while the loop consumes
InitListen ==
    /\ InitRunning
    /\ budget = [c \in Callers |-> 0]

\* the feed sends the subscribed symbols in turn
SampleSymbol(k) == symbols[((k - 1) % Len(symbols)) + 1]

\* the API accepts the token of a session that has not expired
Accepted == sub_session \in {"own", "given"}

\* a slip: the snapshot is fetched and thrown away
on_candle_unmerged(event_symbol, m_data, store_ok) ==
    IF m_data = "raise"
    THEN [out |-> "fetch_raised", fetched |-> <<event_symbol>>, row |-> <<>>]
    ELSE [out |-> IF store_ok THEN "stored" ELSE "store_raised",
          fetched |-> <<event_symbol>>,
          row |-> <<[event_symbol |-> event_symbol]>>]

(* on_candle, lines 152-190: the metrics fetch for the sample's symbol,     *)
(* candle_dict, the metrics fields when m_data is not empty, the store;     *)
(* whatever raises is caught by line 189.  fetched is the symbol list       *)
(* handed to get_market_metrics, row what store_candle_data was given.      *)
on_candle(event_symbol, m_data, store_ok) ==
    IF m_data = "raise"
    THEN [out |-> "fetch_raised", fetched |-> <<event_symbol>>, row |-> <<>>]
    ELSE [out |-> IF store_ok THEN "stored" ELSE "store_raised",
          fetched |-> <<event_symbol>>,
          row |-> IF m_data = "full"
                  THEN <<[event_symbol |-> event_symbol,
                          iv_index |-> event_symbol]>>
                  ELSE <<[event_symbol |-> event_symbol]>>]

\* the record of a sample: who took it, with which session, what was done
SampleEvent(t, m_data, done) ==
    [task |-> t, out |-> done.out, symbol |-> SampleSymbol(hist.samples + 1),
     session |-> sub_session, m_data |-> m_data, fetched |-> done.fetched,
     row |-> done.row]

\* the sample ended the loop at line 79
Break == [out |-> "break", fetched |-> <<>>, row |-> <<>>]

(* the feed delivers a sample to task t, lines 77-84: break when not        *)
(* running, else on_candle.  The fetch is made with self.session as it is   *)
(* (line 154): the API refuses an expired token.                            *)
ListenSample(t) ==
    /\ cur = 0 /\ tasks[t].state = "waiting" /\ ~tasks[t].cancel
    /\ handles[tasks[t].h].state = "open"
    /\ hist.samples < MaxListened
    /\ IF ~is_running
       THEN /\ tasks' = Finish(t, "break")
            /\ hist' = [hist EXCEPT
                          !.samples = @ + 1,
                          !.events = Append(@, SampleEvent(t, "none", Break))]
       ELSE /\ \E m_data \in Snapshots, store_ok \in BOOLEAN :
                 LET done == on_candle(SampleSymbol(hist.samples + 1), m_data,
                                       store_ok)
                     faulty == (Accepted /\ m_data = "raise") \/ ~store_ok
                 IN /\ ~Accepted => m_data = "raise"
                    /\ m_data = "raise" => store_ok
                    /\ MayFail(~faulty)
                    /\ hist' = [hist EXCEPT
                                  !.samples = @ + 1,
                                  !.faults = @ + Fault(~faulty),
                                  !.events =
                                      Append(@, SampleEvent(t, m_data, done)),
                                  !.market_data = @ \o done.row]
            /\ UNCHANGED tasks
    /\ UNCHANGED <<others, sub_session, streamer, is_running, listen_task,
                   handles, call, cur>>

(* time passes: the token of the session made at line 47 runs out *)
SessionExpires ==
    /\ cur = 0
    /\ sub_session = "own"
    /\ sub_session' = "expired"
    /\ UNCHANGED <<others, streamer, is_running, listen_task, handles, tasks,
                   call, cur, hist>>

NextListen ==
    \/ \E t \in Tasks : ListenSample(t)
    \/ \E t \in Tasks : TaskStreamError(t)
    \/ SessionExpires

SpecListen == InitListen /\ [][NextListen]_vars

\* the samples on_candle was called with
Processed == {k \in 1..Len(hist.events) : hist.events[k].out # "break"}

(* C23: every network call that needs authentication is preceded, in the    *)
(* same operation, by a session validation that refreshes an expired        *)
(* session: the per-sample metrics fetch of the consumer loop is never made *)
(* with an expired session.                                                 *)
C23_FetchesFollowValidation ==
    \A k \in Processed :
        hist.events[k].fetched # <<>> => hist.events[k].session # "expired"

\* the record on_candle builds for a sample and its snapshot
ExpectedRow(e) ==
    IF e.m_data = "full"
    THEN [event_symbol |-> e.symbol, iv_index |-> e.symbol]
    ELSE [event_symbol |-> e.symbol]

\* the rows due for the samples whose events satisfy Due, in arrival order
RowsFor(Due(_)) ==
    Flatten([k \in 1..Len(hist.events) |->
                IF k \in Processed /\ Due(hist.events[k])
                THEN <<ExpectedRow(hist.events[k])>> ELSE <<>>])

(* C25: for every sample the loop receives while running a metrics snapshot *)
(* of the sample's symbol is fetched and merged into the sample's record,   *)
(* and the record is handed to the sink exactly once, in arrival order; a   *)
(* sample with an empty snapshot is handed over without the metrics fields. *)
C25_EverySampleForwardedOnce ==
    /\ \A k \in Processed :
         hist.events[k].fetched = <<hist.events[k].symbol>>
    /\ hist.market_data = RowsFor(LAMBDA e : TRUE)

(* C25 as amended: the fetch is attempted for every such sample; the record *)
(* is handed to the sink exactly once, in arrival order, with the metrics   *)
(* fields when the snapshot is not empty and without them when it is, for   *)
(* the samples whose fetch returned; a sample whose fetch raised is dropped *)
(* (logged, never handed to the sink).                                      *)
C25_FetchedSamplesForwardedOnce ==
    /\ \A k \in Processed :
         /\ hist.events[k].fetched = <<hist.events[k].symbol>>
         /\ hist.events[k].m_data = "raise" => hist.events[k].row = <<>>
    /\ hist.market_data = RowsFor(LAMBDA e : e.m_data # "raise")

\* a sample whose fetch raised, one with a snapshot and one without
C25_Witness ==
    /\ Len(hist.events) = 3
    /\ hist.events[1].m_data = "raise"
    /\ hist.events[2].m_data = "full" /\ hist.events[2].symbol = "Y"
    /\ hist.events[3].m_data = "empty"
    /\ hist.market_data = <<[event_symbol |-> "Y", iv_index |-> "Y"],
                            [event_symbol |-> "X"]>>

-----------------------------------------------------------------------------
(* SpecDaily: main.py.  The scheduler fires daily_task once on the event    *)
(* loop on which the consumer task of the running subscription waits.       *)
(* daily_task is a coroutine without an await (lines 95-112):               *)
(* gather_metrics, its sleeps and its stores are ordinary calls, so the     *)
(* coroutine holds the loop from its first line to its return.              *)

\* symbols_per_batch as main.py passes it
DailyBatch == 25

\* the loop token of the daily task, after those of the callers
DailyTask == Cardinality(Callers) + 1

\* the places of a gather_metrics call that has begun and not returned
GatherPlaces ==
    {"gather_call", "batch_loop", "fetch_metrics", "fetch_market_data",
     "combine", "store", "batch_end", "returned", "raised"}

InGather == pc \in GatherPlaces

\* the job is scheduled; the subscription runs (main.py, lines 119-133)
InitDaily ==
    /\ pc = "scheduled"
    /\ args = <<>>
    /\ ret = <<>>
    /\ MgrIdle
    /\ symbols_list \in {Cyc(n, MaxLen) : n \in 1..2}
    /\ symbols_per_batch = DailyBatch
    /\ delay_between_calls = 1
    /\ delay_between_batches = 1
    /\ verbose = TRUE
    /\ session \in {"valid", "expired"}
    /\ batch_num = 0
    /\ i = 0
    /\ all_metrics = <<>>
    /\ all_market_data = <<>>
    /\ batch_combined_data = <<>>
    /\ symbols_processed = 0
    /\ all_combined_data = <<>>
    /\ equity_data = <<>>
    /\ error = "none"
    /\ log = <<>>
    /\ faults = 0
    /\ SubRunning
    /\ budget = [c \in Callers |-> 0]

\* a slip: the job runs gather_metrics on a worker thread and the loop
\* stays free
DailyFire_in_thread ==
    /\ pc = "scheduled"
    /\ cur = 0
    /\ pc' = "gather_call"
    /\ UNCHANGED <<pvars, gvars, svars>>

(* the scheduler runs the coroutine on the loop: it starts when the loop is *)
(* free and keeps it, lines 97-101                                          *)
DailyFire ==
    /\ pc = "scheduled"
    /\ cur = 0
    /\ cur' = DailyTask
    /\ pc' = "gather_call"
    /\ UNCHANGED <<pvars, gvars, symbols, creds, sub_session, streamer,
                   is_running, listen_task, handles, tasks, call, budget,
                   hist, hvars>>

(* gather_metrics returned or raised: lines 109-112 print, the coroutine    *)
(* ends and the loop is free again                                          *)
DailyDone ==
    /\ pc \in {"returned", "raised"}
    /\ cur' = 0
    /\ pc' = "daily_done"
    /\ UNCHANGED <<pvars, gvars, symbols, creds, sub_session, streamer,
                   is_running, listen_task, handles, tasks, call, budget,
                   hist, hvars>>

\* the daily task and the consumer loop on one event loop
NextDaily ==
    \/ DailyFire
    \/ Next
    \/ DailyDone
    \/ \E t \in Tasks : ListenSample(t)
    \/ \E t \in Tasks : TaskStreamError(t)

SpecDaily == InitDaily /\ [][NextDaily]_vars

\* the step hands a row to store_candle_data (consumer) or to
\* store_metric_data (collector)
ConsumerStores == Len(hist'.market_data) > Len(hist.market_data)
CollectorStores == pc = "store" /\ log' # log

(* C31: no two writes to the Persistence Sink overlap.  The consumer hands  *)
(* a row to the sink only while no gather_metrics call is in progress, so   *)
(* never between the beginning and the end of a store of the collector; a   *)
(* store of the collector is made by the coroutine that holds the loop and  *)
(* no consumer step is part of it.                                          *)
C31_WritesAreSerialized ==
    [][/\ ConsumerStores => ~InGather /\ ~InGather' /\ ~CollectorStores
       /\ CollectorStores => cur = DailyTask /\ hist' = hist]_vars

\* the collector is between two of its stores, the consumer has stored a
\* sample before the task began and the feed has more for it
C31_Witness ==
    /\ pc = "store" /\ i = 2
    /\ Len(hist.market_data) >= 1
    /\ hist.samples < MaxListened
    /\ tasks[1].state = "waiting" /\ handles[1].state = "open"

-----------------------------------------------------------------------------
(* SpecHist: the consumption loop of download_historical_data, lines        *)
(* 210-213 and 229-249, on bounded symbol lists and feeds.                  *)

\* samples the feed sends to one backfill loop
MaxFeed == 3

\* the symbols parameter: two symbols, one, one given twice
HistLists == {<<"X", "Y">>, <<"X">>, <<"X", "X">>}

(* a sample: its symbol (Z is never requested), its time against the       *)
(* window (before start_ms, inside, at or after end_ms) and its close       *)
Samples == [symbol : {"X", "Y", "Z"}, time : {"before", "in", "after"},
            close : {0, 1}]

\* the state the other variables keep during a backfill loop
histrest == <<pvars, gvars, symbols, creds, sub_session, streamer,
              is_running, listen_task, handles, tasks, call, cur, budget,
              hist>>

InitHist ==
    /\ pc = "d_loop"
    /\ args \in {[symbols |-> l] : l \in HistLists}
    /\ ret = <<>>
    /\ MgrIdle
    /\ GatherIdle
    /\ ObjectIdle
    /\ collected = [s \in {args.symbols[k] : k \in 1..Len(args.symbols)} |->
                      <<>>]
    /\ completed_symbols = {}
    /\ feed = <<>>
    /\ exit = "none"

\* completed_symbols.add(symbol); if len(...) == len(symbols): break
Complete(symbol) ==
    /\ completed_symbols' = completed_symbols \cup {symbol}
    /\ IF Cardinality(completed_symbols \cup {symbol}) = Len(args.symbols)
       THEN exit' = "completed" /\ pc' = "d_done"
       ELSE UNCHANGED <<exit, pc>>
    /\ UNCHANGED collected

(* lines 231 and 236-249: a sample arrives within the 3 seconds *)
HistSample ==
    /\ pc = "d_loop"
    /\ Len(feed) < MaxFeed
    /\ \E candle \in Samples :
         /\ feed' = Append(feed, candle)
         /\ IF candle.time = "before" \/ candle.close = 0
            THEN Complete(candle.symbol)
            ELSE IF candle.symbol \in DOMAIN collected
            THEN /\ collected' = [collected EXCEPT
                                    ![candle.symbol] = Append(@, candle)]
                 /\ UNCHANGED <<completed_symbols, exit, pc>>
            ELSE /\ exit' = "error"
                 /\ pc' = "d_done"
                 /\ UNCHANGED <<collected, completed_symbols>>
    /\ UNCHANGED histrest

(* lines 231-234: no sample for 3 seconds, asyncio.TimeoutError, break *)
HistTimeout ==
    /\ pc = "d_loop"
    /\ exit' = "timeout"
    /\ pc' = "d_done"
    /\ UNCHANGED <<histrest, collected, completed_symbols, feed>>

(* line 231: the stream raises instead of yielding a sample *)
HistStreamError ==
    /\ pc = "d_loop"
    /\ exit' = "error"
    /\ pc' = "d_done"
    /\ UNCHANGED <<histrest, collected, completed_symbols, feed>>

\* what the call does once the loop is over, in order
Released == [op |-> "release"]
Stored(symbol) ==
    [op |-> "store_metric_data_history", symbol |-> symbol,
     data |-> collected[symbol]]
NoSuchMethod == [op |-> "AttributeError"]

(* the loop is left, by a break or by an exception: the async with of line  *)
(* 216 releases the handle and the finally clause of lines 251-252 runs     *)
(* cleanup; an exception then leaves the call                               *)
HistRelease ==
    /\ pc = "d_done"
    /\ ret' = Append(ret, Released)
    /\ pc' = IF exit = "error" THEN "d_raised" ELSE "d_store"
    /\ UNCHANGED <<args, gvars, svars, mvars>>

(* lines 254-255: for symbol in symbols:                                    *)
(* self.data_store.store_metric_data_history(symbol, data[symbol]).         *)
(* MarketDataStore (market_data_store.py, lines 5-139) defines              *)
(* store_candle_data, store_metric_data, get_stored_data and clear_data:    *)
(* the attribute lookup of the first turn raises AttributeError.            *)
HistStore ==
    /\ pc = "d_store"
    /\ IF args.symbols = <<>>
       THEN pc' = "d_returned" /\ ret' = ret
       ELSE pc' = "d_raised" /\ ret' = Append(ret, NoSuchMethod)
    /\ UNCHANGED <<args, gvars, svars, mvars>>

NextHist ==
    \/ HistSample
    \/ HistTimeout
    \/ HistStreamError
    \/ HistRelease
    \/ HistStore

SpecHist == InitHist /\ [][NextHist]_vars

\* the requested symbols, and those whose end of history the feed signalled
Wanted == {args.symbols[k] : k \in 1..Len(args.symbols)}
Signalled ==
    {feed[k].symbol : k \in {n \in 1..Len(feed) :
                               feed[n].time = "before" \/ feed[n].close = 0}}

(* C20: the backfill loop ends as soon as every requested symbol has        *)
(* signalled completion or the feed has been silent for 3 seconds,          *)
(* whichever is first, whatever the feed sends: it never goes on waiting    *)
(* once all requested symbols have signalled, and it leaves through the     *)
(* completion exit only then; for [X, Y] with a zero-close sample of X and  *)
(* nothing of Y it ends at the timeout holding only samples of X.           *)
C20_EndsOnCompletionOrSilence ==
    /\ pc = "d_loop" => ~(Wanted \subseteq Signalled)
    /\ exit = "completed" => Wanted \subseteq Signalled
    /\ (/\ args.symbols = <<"X", "Y">>
        /\ \A k \in 1..Len(feed) : feed[k].symbol = "X"
        /\ "X" \in Signalled
        /\ pc = "d_done" /\ exit # "error") =>
           (exit = "timeout" /\ collected["Y"] = <<>>)

\* sample k of the feed signals the end of its symbol's history
Signals(k) == feed[k].time = "before" \/ feed[k].close = 0

\* the samples of s that came before s signalled completion
BeforeSignal(s) ==
    {k \in 1..Len(feed) :
        /\ feed[k].symbol = s
        /\ \A j \in 1..k : feed[j].symbol = s => ~Signals(j)}

(* C28: collection ends per symbol: once a symbol has signalled completion  *)
(* (a sample older than the window start, or a zero-close sample) no later  *)
(* sample of that symbol is added to the collected data.                    *)
C28_NothingAfterTheSignal ==
    \A s \in DOMAIN collected :
        Len(collected[s]) <= Cardinality(BeforeSignal(s))

(* C29: every collected sample lies inside the requested window,            *)
(* start <= time < end: a sample at or after end is never collected.        *)
C29_CollectedInsideTheWindow ==
    \A s \in DOMAIN collected :
        \A k \in 1..Len(collected[s]) : collected[s][k].time = "in"

(* C30: the loop leaves through the completion exit exactly when the set of *)
(* symbols that signalled completion equals the set of requested symbols,   *)
(* whatever list was requested and whatever the feed sends.                 *)
C30_CompletedIffAllRequestedSignalled ==
    /\ exit = "completed" => completed_symbols = Wanted
    /\ pc = "d_loop" => completed_symbols # Wanted

(* C37: after the loop of download_historical_data ends by completion or by *)
(* the silence timeout, the handle is released first, then the samples      *)
(* collected for each requested symbol are handed to the sink once, in      *)
(* request order, and the call returns without raising; after a loop that   *)
(* ended with an error nothing is handed to the sink.                       *)
C37_ReleaseThenStoreInOrder ==
    /\ (pc \in {"d_returned", "d_raised"} /\ exit \in {"completed", "timeout"})
         => /\ pc = "d_returned"
            /\ ret = <<Released>>
                     \o [k \in 1..Len(args.symbols) |-> Stored(args.symbols[k])]
    /\ exit = "error" =>
         \A k \in 1..Len(ret) : ret[k].op # "store_metric_data_history"

-----------------------------------------------------------------------------
(* SpecMgr: one MarketDataManager                                           *)
(* (src/src/subscription/market_data_manager.py).  One thread calls start() *)
(* and stop(), one call after the other; the worker threads run _run_loop   *)
(* beside it, a step of any thread at a time.  A worker is a position of    *)
(* workers; its place is "test" (the while test of line 51), "poll"         *)
(* (inside gather_market_data, line 53), "wait" (inside                     *)
(* _stop_event.wait, line 58) or "exited".                                  *)

\* calls of start() and stop() made in one run
MaxMgrCalls == 4
\* polls begun in one run, all workers together
MaxPolls == 3

\* the state of the other components during a run of the manager
mrest == <<pc, args, ret, gvars, svars>>

InitMgr ==
    /\ pc = "manager"
    /\ args = <<>>
    /\ ret = <<>>
    /\ GatherIdle
    /\ SubIdle
    /\ MgrNew
    /\ mhist = NoManagerHistory

Workers == 1..Len(workers)

\* Thread.is_alive()
Alive(w) == workers[w].pc # "exited"

\* the workers that execute _run_loop
InLoop == {w \in Workers : Alive(w)}

Called(op) == [mhist EXCEPT !.calls = @ + 1, !.last = op]

(* start(), lines 67-72: return when running; else running = True and      *)
(* _stop_event.clear()                                                      *)
StartCall ==
    /\ mcall = "idle" /\ mhist.calls < MaxMgrCalls
    /\ mhist' = Called("start")
    /\ IF running
       THEN UNCHANGED <<running, stop_event, mcall>>
       ELSE /\ running' = TRUE
            /\ stop_event' = FALSE
            /\ mcall' = "start_thread"
    /\ UNCHANGED <<mrest, thread, workers>>

(* start(), lines 73-76: the thread is created and started *)
StartThread ==
    /\ mcall = "start_thread"
    /\ workers' = Append(workers, [pc |-> "test", polls |-> 0, failed |-> 0])
    /\ thread' = Len(workers) + 1
    /\ mcall' = "idle"
    /\ UNCHANGED <<mrest, running, stop_event, mhist>>

(* stop(), lines 80-88: return when not running; else running = False,      *)
(* _stop_event.set(), and join(timeout=5) when the thread is alive          *)
StopCall ==
    /\ mcall = "idle" /\ mhist.calls < MaxMgrCalls
    /\ mhist' = Called("stop")
    /\ IF ~running
       THEN UNCHANGED <<running, stop_event, mcall>>
       ELSE /\ running' = FALSE
            /\ stop_event' = TRUE
            /\ mcall' = IF thread # 0 /\ Alive(thread)
                        THEN "stop_join" ELSE "idle"
    /\ UNCHANGED <<mrest, thread, workers>>

\* a slip: join() without a timeout returns only when the thread has ended
StopJoined_no_timeout ==
    /\ mcall = "stop_join"
    /\ ~Alive(thread)
    /\ mcall' = "idle"
    /\ UNCHANGED <<mrest, running, thread, stop_event, workers, mhist>>

(* stop(), lines 88-90: join returns when the thread has ended or when the  *)
(* 5 seconds are over, whichever comes first                                *)
StopJoined ==
    /\ mcall = "stop_join"
    /\ mcall' = "idle"
    /\ mhist' = [mhist EXCEPT !.timed_out = @ \/ Alive(thread)]
    /\ UNCHANGED <<mrest, running, thread, stop_event, workers>>

(* _run_loop, line 51: while not self._stop_event.is_set() *)
WorkerTest(w) ==
    /\ workers[w].pc = "test"
    /\ IF stop_event
       THEN /\ workers' = [workers EXCEPT ![w].pc = "exited"]
            /\ UNCHANGED mhist
       ELSE /\ mhist.polls < MaxPolls
            /\ workers' = [workers EXCEPT ![w].pc = "poll", ![w].polls = @ + 1]
            /\ mhist' = [mhist EXCEPT !.polls = @ + 1]
    /\ UNCHANGED <<mrest, running, thread, stop_event, mcall>>

(* lines 52-55 and 24-47: gather_market_data returns the data, or catches   *)
(* what was raised and returns None; _run_loop catches what it would raise. *)
(* Either way line 58 is next.                                              *)
PollReturns(w) ==
    /\ workers[w].pc = "poll"
    /\ \E ok \in BOOLEAN :
         workers' = [workers EXCEPT ![w].pc = "wait",
                                    ![w].failed = @ + Fault(ok)]
    /\ UNCHANGED <<mrest, running, thread, stop_event, mcall, mhist>>

(* line 58: _stop_event.wait(self.update_interval) returns, because the     *)
(* event is set or because the interval is over                             *)
WaitReturns(w) ==
    /\ workers[w].pc = "wait"
    /\ workers' = [workers EXCEPT ![w].pc = "test"]
    /\ UNCHANGED <<mrest, running, thread, stop_event, mcall, mhist>>

NextMgr ==
    \/ StartCall
    \/ StartThread
    \/ StopCall
    \/ StopJoined
    \/ \E w \in Workers : WorkerTest(w)
    \/ \E w \in Workers : PollReturns(w)
    \/ \E w \in Workers : WaitReturns(w)

SpecMgr == InitMgr /\ [][NextMgr]_vars

\* the calling thread runs, and the clock of the join runs: a poll may
\* block for any time, so nothing is assumed of the workers
SpecMgrFair == SpecMgr /\ WF_vars(StopJoined)

(* C32: stop() sets the stop event and returns after the join, which lasts  *)
(* at most its timeout even when the worker is blocked in a poll; a worker  *)
(* that finds the event set at its loop test starts no poll and exits; a    *)
(* worker leaves the loop in no other way, so a poll that failed does not   *)
(* end it.                                                                  *)
C32_StopIsBoundedLoopIsCooperative ==
    /\ (mcall = "stop_join") ~> (mcall = "idle")
    /\ [][(running /\ ~running') => stop_event']_vars
    /\ [][\A w \in Workers :
            /\ (workers[w].pc = "test" /\ stop_event
                /\ workers'[w] # workers[w]) => workers'[w].pc = "exited"
            /\ (Alive(w) /\ workers'[w].pc = "exited") =>
                  (workers[w].pc = "test" /\ stop_event)
            /\ (workers[w].pc = "poll" /\ workers'[w] # workers[w]) =>
                  workers'[w].pc = "wait"]_vars

\* stop() has returned from a join that timed out: the worker is still in
\* its second poll, the first of which failed
C32_Witness ==
    /\ mcall = "idle" /\ ~running /\ stop_event
    /\ mhist.last = "stop" /\ mhist.timed_out
    /\ workers[1].pc = "poll"
    /\ workers[1].polls = 2 /\ workers[1].failed = 1

(* C33: whatever start() and stop() calls are made, at most one worker      *)
(* thread executes the polling loop at any time, and a start() on a running *)
(* manager creates no thread.                                               *)
C33_OneWorkerAtATime ==
    /\ [](Cardinality(InLoop) <= 1)
    /\ [][(running /\ mhist'.calls > mhist.calls /\ mhist'.last = "start")
            => UNCHANGED <<workers, thread, mcall>>]_vars

====
